---- MODULE Spec2Model ----
(***************************************************************************)
(* Harness document acquisition and structuring pipeline.                  *)
(*                                                                         *)
(* The programs of the repository are modelled each under its own          *)
(* specification, some parts of them under a specification of their own;   *)
(* the state of the programs a specification does not run stays at its     *)
(* initial value.                                                          *)
(*                                                                         *)
(*   SpecDag       data-pipeline/dags/veterinary_corpus_acquisition.py     *)
(*                 (query tasks, download_papers, task dependencies)       *)
(*   SpecCrawl     data-pipeline/lambdas/grobid_processor/package/main.py  *)
(*                 (handler, process_papers_for_full_text, get_pdf_urls,   *)
(*                  download_pdf, save_*_to_s3), one invocation            *)
(*   SpecRerun     the same handler invoked repeatedly on one bucket       *)
(*   SpecProcess   the same handler on one source with process_pdfs: one   *)
(*                 call of process_papers_for_full_text                    *)
(*   SpecExtract   the same file: extract_text_from_pdf, method by method, *)
(*                 on one PDF in one environment                           *)
(*   SpecGrobid    data-pipeline/lambdas/grobid_processor/handler.py       *)
(*                 (lambda_handler, process_document, process_pdf)         *)
(*   SpecConf      data-pipeline/scripts/crawlers/conference_crawler.py    *)
(*                 (crawl_with_requests, download_pdf)                     *)
(*   SpecUnpaywall data-pipeline/scripts/crawlers/unpaywall_crawler.py     *)
(*                 (process_doi_batch and its pool of threads)             *)
(*   SpecIvis      data-pipeline/scripts/crawlers/ivis_crawler.py          *)
(*                 (crawl_all, crawl_proceedings, download_resource)       *)
(*   SpecAdmin     backend/services/admin.py (get_paper_stats,             *)
(*                 get_paper_sources) with backend/utils/s3.py and         *)
(*                 backend/services/cache.py                               *)
(*   SpecEval      backend/api/routers/admin.py and services/admin.py      *)
(*                 (start_evaluation, run_evaluation, get_evaluation_run,  *)
(*                  stream_evaluation_progress) on one event loop          *)
(*   FairSpecStream  the runs and a stream of them, the loop being fair    *)
(*   SpecRate      backend/api/middleware/rate_limit.py                    *)
(*                 (RateLimitMiddleware.dispatch)                          *)
(***************************************************************************)
EXTENDS Integers, Sequences, FiniteSets, TLC

(***************************************************************************)
(* Bounds of the model.                                                    *)
(***************************************************************************)
\* candidates the sources return in total for one time window, and so the
\* identifiers (PMIDs, DOIs) they can name
MaxCands == 2
\* distinct byte sequences the web can serve
MaxBody == 2
\* runs of the daily DAG
MaxRuns == 2

Ids == 1..MaxCands
Bodies == 1..MaxBody

(***************************************************************************)
(* Helpers on sequences.                                                   *)
(***************************************************************************)
Range(s) == {s[i] : i \in DOMAIN s}

\* the sequences over S without repetition, of length at most n
RECURSIVE NoDupSeqs(_, _)
NoDupSeqs(S, n) ==
    IF n = 0 THEN {<<>>}
    ELSE LET shorter == NoDupSeqs(S, n - 1)
         IN  shorter \cup
             UNION {{<<x>> \o t : t \in {u \in shorter : x \notin Range(u)}} : x \in S}

(***************************************************************************)
(* hashlib.md5(content).hexdigest(): a digest of the bytes.  The model's   *)
(* byte sequences are few enough that the digest separates them, as MD5    *)
(* does for the documents of a corpus.                                     *)
(***************************************************************************)
md5(b) == (b * 37 + 11) % 101

(***************************************************************************)
(* State.                                                                  *)
(*                                                                         *)
(* DAG (veterinary_corpus_acquisition.py)                                  *)
(*   dag_run    number of times the DAG run was executed                   *)
(*   task       state of each task instance of the current execution       *)
(*   xcom       values pushed by the tasks of the current execution        *)
(*   dl         download_papers' locals: the loop it is in (src), the      *)
(*              index in that loop (idx), downloaded_count (count),        *)
(*              download_metadata (meta)                                    *)
(*   raw        the objects under raw/ of the corpus bucket, each          *)
(*              [key, body]                                                *)
(*   put_log    the s3_hook.load_bytes calls made so far, each with its    *)
(*              key, its bytes and how it ended                            *)
(*   api, web   the external world: what each source's query returns and   *)
(*              what each URL answers, fixed once asked (the same time     *)
(*              window and the same external responses on a re-execution)  *)
(***************************************************************************)
VARIABLES dag_run, task, xcom, dl, raw, put_log, api, web

dagVars == <<dag_run, task, xcom, dl, raw, put_log, api, web>>

(***************************************************************************)
(* extract_text_from_pdf (package/main.py), applied to one input           *)
(*   ex_in      the call: the PDF (its byte length, the text of its pages) *)
(*              and what the two libraries do on it                        *)
(*   ex_out     what the call returned and the strategies it went through  *)
(***************************************************************************)
VARIABLES ex_in, ex_out

extractVars == <<ex_in, ex_out>>

(***************************************************************************)
(* The crawl Lambda (package/main.py), one invocation                      *)
(*   event      the event of the invocation                                *)
(*   hpc        where the handler is: the step (pc) and the source (i)     *)
(*   results    the handler's results dictionary                           *)
(*   response   what the handler returned (statusCode 0: not yet)          *)
(*   proc       process_papers_for_full_text's locals: the papers it was   *)
(*              given, pdf_urls (queue), the position in it (idx),         *)
(*              processed_count, failed_count                              *)
(*   fetch      the last iteration of its loop: the URLs download_pdf      *)
(*              requested, the reply to the last of them, the content it   *)
(*              returned, the key the text was saved under, whether the    *)
(*              iteration counted a failure                                *)
(*   lambda_s3  the objects the Lambda wrote to the corpus bucket          *)
(*   clock      the time, in the seconds of the keys' timestamps           *)
(*   fetched    the byte sequences download_pdf returned, per paper, each  *)
(*              with the key its text was saved under                      *)
(*   dropped    the put_object calls that raised                           *)
(*   inv        the invocation on this bucket: its number (n) and the      *)
(*              objects the bucket held when it began (before)             *)
(***************************************************************************)
VARIABLES event, hpc, results, response, proc, fetch, lambda_s3, clock, fetched,
          dropped, inv

crawlVars == <<event, hpc, results, response, proc, fetch, lambda_s3, clock,
               fetched, dropped, inv>>

(***************************************************************************)
(* The GROBID Lambda (handler.py), one invocation                          *)
(*   gevent     the event: its kind and the records or documents it lists  *)
(*   gpc        where lambda_handler is: the step (pc) and the item (i)    *)
(*   gresults   lambda_handler's results list                              *)
(*   training   the objects under processed/ of the training bucket        *)
(*   gresponse  what lambda_handler returned (statusCode 0: not yet)       *)
(***************************************************************************)
VARIABLES gevent, gpc, gresults, training, gresponse

grobidVars == <<gevent, gpc, gresults, training, gresponse>>

(***************************************************************************)
(* The conference crawler (conference_crawler.py), one conference          *)
(*   cpc          where crawl_with_requests is: the step (pc), the link    *)
(*                (i), and whether the crawler has a bucket (s3)           *)
(*   pdf_links    the links extract_pdf_links found on the page            *)
(*   conf_results crawl_with_requests' results list                        *)
(*   conf_s3      the objects under raw/conferences/ of the bucket         *)
(***************************************************************************)
VARIABLES cpc, pdf_links, conf_results, conf_s3

confVars == <<cpc, pdf_links, conf_results, conf_s3>>

(***************************************************************************)
(* The Unpaywall crawler (unpaywall_crawler.py), one process_doi_batch     *)
(*   future      the futures of executor.submit(search_by_doi, doi), one   *)
(*               per DOI: its state, the time its request was sent, what   *)
(*               search_by_doi returned                                    *)
(*   up_results  process_doi_batch's results list                          *)
(*   upc         where the main thread is                                  *)
(*   now         the time, in periods of the sleep of the main thread      *)
(***************************************************************************)
VARIABLES future, up_results, upc, now

unpaywallVars == <<future, up_results, upc, now>>

(***************************************************************************)
(* The IVIS crawler (ivis_crawler.py), one crawler object and one call     *)
(*   logged_in     self.logged_in                                          *)
(*   ivis_session  what the site holds for the crawler's cookies: no       *)
(*                 session, a session that is logged in, one that expired  *)
(*   ivis_pc       the method called (call), where it is (pc), the         *)
(*                 resource crawl_all is at (i)                            *)
(*   ivis_results  what the call returns: for each section the number of   *)
(*                 items found and the session its page was served to,     *)
(*                 and the number of resources downloaded                  *)
(*   ivis_sent     the requests for a section or a resource sent so far,   *)
(*                 each with the session it was served to                  *)
(*   logins        the calls of login_with_requests so far                 *)
(***************************************************************************)
VARIABLES logged_in, ivis_session, ivis_pc, ivis_results, ivis_sent, logins

ivisVars == <<logged_in, ivis_session, ivis_pc, ivis_results, ivis_sent, logins>>

(***************************************************************************)
(* The admin service (backend/services/admin.py), paper acquisition        *)
(*   listing        the objects under metadata/ of the papers bucket, in   *)
(*                  the order list_objects_v2 gives them: the source of    *)
(*                  the key, LastModified, the papers the file holds,      *)
(*                  whether get_object and json.loads succeed on it        *)
(*   paper_stats    what the last get_paper_stats returned                 *)
(*   paper_sources  what the last get_paper_sources returned               *)
(*   admin_calls    the calls of the two methods so far                    *)
(***************************************************************************)
VARIABLES listing, paper_stats, paper_sources, admin_calls

adminVars == <<listing, paper_stats, paper_sources, admin_calls>>

(***************************************************************************)
(* Evaluation runs of the admin API (api/routers/admin.py,                 *)
(* services/admin.py), on the event loop of the server:                    *)
(*   evaluation_runs  self.evaluation_runs: for each run id the status     *)
(*                    ("absent" when the id is not a key), the number of   *)
(*                    keys of its progress and of its results              *)
(*   eval_tasks       the run_evaluation task of each run id: where it is  *)
(*                    and the benchmarks of its request                    *)
(*   ready            the callbacks the loop is to run, first in first out *)
(*   issued           the run ids start_evaluation has returned            *)
(*   lookup           what the last get_evaluation_run or first step of    *)
(*                    stream_evaluation_progress found                     *)
(*   streams          the calls of stream_evaluation_progress: the run,    *)
(*                    where the generator is, last_progress, the events    *)
(*                    it has yielded                                       *)
(***************************************************************************)
VARIABLES evaluation_runs, eval_tasks, ready, issued, lookup, streams

evalVars == <<evaluation_runs, eval_tasks, ready, issued, lookup, streams>>

(***************************************************************************)
(* RateLimitMiddleware (api/middleware/rate_limit.py):                     *)
(*   requests   self.requests: for each client IP the times it recorded    *)
(*   rl_now     time.time() at the last request                            *)
(*   passed     for each client IP the times of the requests given to      *)
(*              call_next                                                  *)
(*   rl_last    the last request dispatched: its client, its time and the  *)
(*              status of the response (0 before the first)                *)
(***************************************************************************)
VARIABLES requests, rl_now, passed, rl_last

rateVars == <<requests, rl_now, passed, rl_last>>

vars == <<dagVars, extractVars, crawlVars, grobidVars, confVars, unpaywallVars,
          ivisVars, adminVars, evalVars, rateVars>>

\* the state of the programs the DAG does not run
notDag == <<extractVars, crawlVars, grobidVars, confVars, unpaywallVars,
             ivisVars, adminVars, evalVars, rateVars>>

\* the state of the programs a call of extract_text_from_pdf does not run
notExtract == <<dagVars, crawlVars, grobidVars, confVars, unpaywallVars,
                 ivisVars, adminVars, evalVars, rateVars>>

\* the state of the programs the crawl Lambda does not run
notCrawl == <<dagVars, extractVars, grobidVars, confVars, unpaywallVars,
               ivisVars, adminVars, evalVars, rateVars>>

\* the state of the programs the GROBID Lambda does not run
notGrobid == <<dagVars, extractVars, crawlVars, confVars, unpaywallVars,
                ivisVars, adminVars, evalVars, rateVars>>

\* the state of the programs the conference crawler does not run
notConf == <<dagVars, extractVars, crawlVars, grobidVars, unpaywallVars,
              ivisVars, adminVars, evalVars, rateVars>>

\* the state of the programs the Unpaywall crawler does not run
notUnpaywall == <<dagVars, extractVars, crawlVars, grobidVars, confVars, ivisVars,
                  adminVars, evalVars, rateVars>>

\* the state of the programs the IVIS crawler does not run
notIvis == <<dagVars, extractVars, crawlVars, grobidVars, confVars, unpaywallVars,
             adminVars, evalVars, rateVars>>

\* the state of the programs the admin service does not run
notAdmin == <<dagVars, extractVars, crawlVars, grobidVars, confVars, unpaywallVars,
              ivisVars, evalVars, rateVars>>

\* the state of the programs the evaluation endpoints do not run
notEval == <<dagVars, extractVars, crawlVars, grobidVars, confVars, unpaywallVars,
             ivisVars, adminVars, rateVars>>

\* the state of the programs the rate limiter does not run
notRate == <<dagVars, extractVars, crawlVars, grobidVars, confVars, unpaywallVars,
             ivisVars, adminVars, evalVars>>

(***************************************************************************)
(* The DAG: tasks and what they push.                                      *)
(***************************************************************************)
\* the query tasks of the data_sources task group, in the order they are
\* defined; they share no state, so the model runs them in that order
QueryOrder == <<"pubmed_query", "europe_pmc_query", "doaj_query", "crossref_query">>

QueryTasks == Range(QueryOrder)

\* query_pubmed and query_europe_pmc call requests.get and response.json()
\* outside any try; query_doaj and query_crossref catch every exception and
\* push what they have collected
Unguarded == {"pubmed_query", "europe_pmc_query"}

XcomKey(t) ==
    CASE t = "pubmed_query" -> "pmids"
      [] t = "europe_pmc_query" -> "europe_pmc_ids"
      [] t = "doaj_query" -> "doaj_articles"
      [] t = "crossref_query" -> "crossref_articles"

\* the loops of download_papers, in the order of the code
DlSources == <<"pubmed", "doaj", "crossref">>

SourceKey(src) ==
    CASE src = "pubmed" -> "pmids"
      [] src = "doaj" -> "doaj_articles"
      [] src = "crossref" -> "crossref_articles"

\* the links of a DOAJ or CrossRef article: for each, whether it passes the
\* branch's test (type 'fulltext' and a url ending in .pdf; content-type
\* application/pdf)
LinkLists == {<<FALSE, TRUE, TRUE>>}

\* what a query can return, up to the names of the identifiers: PMIDs and
\* DOIs are different name spaces, PubMed's and DOAJ's results are numbered
\* from 1, and CrossRef's DOIs may or may not be among DOAJ's
Prefixes == {[i \in 1..k |-> i] : k \in 0..MaxCands}

IdLists == {ids \in NoDupSeqs(Ids, MaxCands) :
               \A i, j \in DOMAIN ids : i < j => ids[i] < ids[j]}

\* articles of DOAJ or CrossRef, each with its DOI and its links
Articles(idlists) ==
    UNION {{[i \in DOMAIN ids |-> [doi |-> ids[i], links |-> f[i]]] :
               f \in [DOMAIN ids -> LinkLists]} : ids \in idlists}

QueryResults(t) ==
    CASE t = "pubmed_query" -> Prefixes
      [] t = "europe_pmc_query" -> {<<1>>}
      [] t = "doaj_query" -> Articles(Prefixes)
      [] t = "crossref_query" -> Articles(IdLists)

\* an HTTP request's outcome: an exception (timeout, connection error), or a
\* response with its status and body
Responses ==
    {[kind |-> "exception", status |-> 0, body |-> 0]}
    \cup {[kind |-> "response", status |-> 404, body |-> 0]}
    \cup {[kind |-> "response", status |-> 200, body |-> b] : b \in Bodies}

Unasked == [kind |-> "unasked", status |-> 0, body |-> 0]

\* the URLs download_papers requests: the PMC URL of a PMID, the links of an
\* article
DagUrls == {<<src, id, l>> : src \in Range(DlSources), id \in Ids, l \in 1..3}

(***************************************************************************)
(* S3Hook.load_bytes(bytes, key, bucket_name, replace=False): raises       *)
(* ValueError when the key exists, else writes the object.  (Outages of    *)
(* the object store are modelled where the Lambda writes, below.)          *)
(***************************************************************************)
RawKey(src, id, body) == [source |-> src, id |-> id, hash |-> md5(body)]

Keys(objects) == {o.key : o \in objects}

\* replace=True: the key is written whether it exists or not
load_bytes_replace(objects, key) == "written"

load_bytes_result(objects, key) ==
    IF key \in Keys(objects) THEN "exists" ELSE "written"

load_bytes(objects, key, body) ==
    IF load_bytes_result(objects, key) = "written"
    THEN {o \in objects : o.key # key} \cup {[key |-> key, body |-> body]}
    ELSE objects

(***************************************************************************)
(* One iteration of a loop of download_papers.                             *)
(*                                                                         *)
(* PubMed (lines 331-349): one URL per PMID; a 200 response is hashed and  *)
(* stored.  DOAJ and CrossRef (lines 352-405): the article's links are     *)
(* tried in order, a link that fails the test or answers another status    *)
(* than 200 is passed over, the first 200 is stored and ends the loop      *)
(* (break).  Every exception, of the request or of load_bytes, ends the    *)
(* iteration (except Exception around the whole iteration).                *)
(***************************************************************************)
\* the link whose request ends the iteration: the first that passes the test
\* and either raises or answers 200; 0 when there is none
RECURSIVE FirstDecisive(_, _, _)
FirstDecisive(links, rs, i) ==
    IF i > Len(links) THEN 0
    ELSE IF links[i] /\ (rs[i].kind = "exception" \/ rs[i].status = 200) THEN i
    ELSE FirstDecisive(links, rs, i + 1)

\* the links requested in the iteration
Requested(links, rs) ==
    LET d == FirstDecisive(links, rs, 1)
    IN  {i \in DOMAIN links : links[i] /\ (d = 0 \/ i <= d)}

\* what the requests of an iteration can answer: the links that pass the test
\* answer in order, and none is requested after one that raises or answers
\* 200 (FirstDecisive); a link that is not requested has no answer
AttemptRuns(links) ==
    {rs \in {[i \in DOMAIN links |->
                 IF ~links[i] \/ (d # 0 /\ i > d) THEN Unasked
                 ELSE IF i = d THEN r
                 ELSE [kind |-> "response", status |-> 404, body |-> 0]] :
              d \in {0} \cup {i \in DOMAIN links : links[i]}, r \in Responses} :
        \A i \in DOMAIN links : (i \in Requested(links, rs)) = (rs[i] # Unasked)}

\* byte sequences are named in the order the web first serves them
SeenBodies(w) ==
    LET seen == {w[u].body : u \in DOMAIN w}
    IN  CHOOSE b \in seen : \A c \in seen : c <= b

CandId(src, cand) == IF src = "pubmed" THEN cand ELSE cand.doi

CandLinks(src, cand) == IF src = "pubmed" THEN <<TRUE>> ELSE cand.links

\* the position of download_papers after (src, idx): the next candidate of
\* the loop, or the first of the next loop that has one, or past the last
\* loop
RECURSIVE Advance(_, _, _)
Advance(x, src, idx) ==
    IF src > Len(DlSources) THEN [src |-> src, idx |-> 1]
    ELSE IF idx <= Len(x[SourceKey(DlSources[src])]) THEN [src |-> src, idx |-> idx]
    ELSE Advance(x, src + 1, 1)

DagInit ==
    /\ dag_run = 0
    /\ task = [t \in QueryTasks \cup {"download_papers"} |-> "none"]
    /\ xcom = [k \in {"pmids", "europe_pmc_ids", "doaj_articles", "crossref_articles",
                      "download_metadata"} |-> <<>>]
    /\ dl = [src |-> 1, idx |-> 1, count |-> 0, meta |-> <<>>]
    /\ raw = {}
    /\ put_log = <<>>
    /\ api = [t \in QueryTasks |-> [asked |-> FALSE, res |-> <<>>]]
    /\ web = [u \in DagUrls |-> Unasked]

\* candidates the sources have returned for download
Returned(a) ==
    Len(a["pubmed_query"].res) + Len(a["doaj_query"].res) + Len(a["crossref_query"].res)

\* the scheduler executes the DAG run: the first time, or again once the
\* previous execution is over (a cleared run, the next sweep of the window)
StartRun ==
    /\ dag_run < MaxRuns
    /\ dag_run > 0 => task["download_papers"] \in {"success", "upstream_failed"}
    /\ dag_run' = dag_run + 1
    /\ task' = [t \in DOMAIN task |-> "none"]
    /\ xcom' = [k \in DOMAIN xcom |-> <<>>]
    /\ dl' = [src |-> 1, idx |-> 1, count |-> 0, meta |-> <<>>]
    /\ UNCHANGED <<raw, put_log, api, web>>
    /\ UNCHANGED notDag

\* the next query task to run
Runnable(t) ==
    /\ dag_run > 0
    /\ task[t] = "none"
    /\ \A i, j \in DOMAIN QueryOrder :
          i < j /\ QueryOrder[j] = t => task[QueryOrder[i]] # "none"

\* a query task runs to its end and pushes its result
QuerySucceeds(t) ==
    /\ Runnable(t)
    /\ \E res \in QueryResults(t) :
          /\ api[t].asked => res = api[t].res
          /\ api' = [api EXCEPT ![t] = [asked |-> TRUE, res |-> res]]
          /\ t # "europe_pmc_query" => Returned(api') <= MaxCands
          /\ xcom' = [xcom EXCEPT ![XcomKey(t)] = res]
    /\ task' = [task EXCEPT ![t] = "success"]
    /\ UNCHANGED <<dag_run, dl, raw, put_log, web>>
    /\ UNCHANGED notDag

\* requests.get or response.json() raises in a task that has no try: the
\* task fails (on each of its tries)
QueryRaises(t) ==
    /\ Runnable(t)
    /\ t \in Unguarded
    /\ task' = [task EXCEPT ![t] = "failed"]
    /\ UNCHANGED <<dag_run, xcom, dl, raw, put_log, api, web>>
    /\ UNCHANGED notDag

\* data_sources >> download_task with the default trigger rule all_success
DownloadStarts ==
    /\ task["download_papers"] = "none"
    /\ \A t \in QueryTasks : task[t] = "success"
    /\ task' = [task EXCEPT !["download_papers"] = "running"]
    /\ dl' = [dl EXCEPT !.src = Advance(xcom, 1, 1).src, !.idx = Advance(xcom, 1, 1).idx]
    /\ UNCHANGED <<dag_run, xcom, raw, put_log, api, web>>
    /\ UNCHANGED notDag

DownloadUpstreamFailed ==
    /\ task["download_papers"] = "none"
    /\ \A t \in QueryTasks : task[t] \in {"success", "failed"}
    /\ \E t \in QueryTasks : task[t] = "failed"
    /\ task' = [task EXCEPT !["download_papers"] = "upstream_failed"]
    /\ UNCHANGED <<dag_run, xcom, dl, raw, put_log, api, web>>
    /\ UNCHANGED notDag

DlList == xcom[SourceKey(DlSources[dl.src])]

DownloadStep ==
    /\ task["download_papers"] = "running"
    /\ dl.src <= Len(DlSources)
    /\ dl.idx <= Len(DlList)
    /\ LET src == DlSources[dl.src]
           cand == DlList[dl.idx]
           id == CandId(src, cand)
           links == CandLinks(src, cand)
       IN  \E rs \in AttemptRuns(links) :
              LET d == FirstDecisive(links, rs, 1)
                  asked == Requested(links, rs)
                  got == d # 0 /\ rs[d].kind = "response"
                  body == IF got THEN rs[d].body ELSE 0
                  key == RawKey(src, id, body)
                  res == load_bytes_result(raw, key)
                  next == Advance(xcom, dl.src, dl.idx + 1)
              IN  /\ body <= SeenBodies(web) + 1
                  /\ \A i \in asked :
                        web[<<src, id, i>>] # Unasked => rs[i] = web[<<src, id, i>>]
                  /\ web' = [u \in DagUrls |->
                                IF u[1] = src /\ u[2] = id /\ u[3] \in asked
                                THEN rs[u[3]] ELSE web[u]]
                  /\ IF got
                     THEN /\ raw' = load_bytes(raw, key, body)
                          /\ put_log' = Append(put_log,
                                 [key |-> key, body |-> body, result |-> res])
                          /\ dl' = IF res = "written"
                                   THEN [src |-> next.src, idx |-> next.idx,
                                         count |-> dl.count + 1,
                                         meta |-> Append(dl.meta, key)]
                                   ELSE [dl EXCEPT !.src = next.src, !.idx = next.idx]
                     ELSE /\ dl' = [dl EXCEPT !.src = next.src, !.idx = next.idx]
                          /\ UNCHANGED <<raw, put_log>>
    /\ UNCHANGED <<dag_run, task, xcom, api>>
    /\ UNCHANGED notDag

\* xcom_push of download_metadata and the return
DownloadReturns ==
    /\ task["download_papers"] = "running"
    /\ dl.src > Len(DlSources)
    /\ xcom' = [xcom EXCEPT !["download_metadata"] = dl.meta]
    /\ task' = [task EXCEPT !["download_papers"] = "success"]
    /\ UNCHANGED <<dag_run, dl, raw, put_log, api, web>>
    /\ UNCHANGED notDag

NextDag ==
    \/ StartRun
    \/ \E t \in QueryTasks : QuerySucceeds(t)
    \/ \E t \in QueryTasks : QueryRaises(t)
    \/ DownloadStarts
    \/ DownloadUpstreamFailed
    \/ DownloadStep
    \/ DownloadReturns

(***************************************************************************)
(* extract_text_from_pdf (package/main.py).                                *)
(*                                                                         *)
(* A PDF is its byte length and the text of its pages; the text of a page  *)
(* is its length in characters and the heading words it contains.  The     *)
(* environment says, for each library, whether the import fails            *)
(* ("missing"), the library raises on this PDF ("raises") or it works      *)
(* ("ok"); PyPDF2 may also raise on the first page only ("page_raises"),   *)
(* which the per-page try of the second method absorbs.                    *)
(***************************************************************************)
\* pages of a PDF
MaxPages == 2

\* the keys of the sections of method 1, in the order of its if/elif chain
Headings == <<"abstract", "introduction", "methods", "results", "discussion",
              "conclusion", "references">>

\* the words whose presence in the lower-cased page selects a heading
Triggers(h) ==
    CASE h = "abstract" -> {"abstract"}
      [] h = "introduction" -> {"introduction", "background"}
      [] h = "methods" -> {"method", "material"}
      [] h = "results" -> {"result"}
      [] h = "discussion" -> {"discussion"}
      [] h = "conclusion" -> {"conclusion"}
      [] h = "references" -> {"reference"}

Words == UNION {Triggers(Headings[i]) : i \in DOMAIN Headings}

\* page_text[:500]
ExcerptCap == 500

NoExcerpt == [page |-> 0, len |-> 0]

Excerpt(page, i) ==
    [page |-> i, len |-> IF page.len < ExcerptCap THEN page.len ELSE ExcerptCap]

\* len(pdf_content) of the byte sequence b
PdfSize(b) == 1024 * b

WordSets == {{}} \cup {{w} : w \in Words} \cup {{"abstract", "introduction"}}

PageKinds ==
    {[len |-> 0, words |-> {}]}
    \cup {[len |-> 300, words |-> ws] : ws \in WordSets}
    \cup {[len |-> 800, words |-> ws] : ws \in {{}, {"abstract"}}}

Pdfs ==
    {[size |-> PdfSize(b), pages |-> ps] :
        b \in Bodies, ps \in UNION {[1..n -> PageKinds] : n \in 0..MaxPages}}

Envs ==
    [pdfplumber : {"missing", "raises", "ok"},
     PyPDF2 : {"missing", "raises", "page_raises", "ok"}]

\* the import succeeded
use_pdfplumber(env) == env.pdfplumber # "missing"

use_pypdf2(env) == env.PyPDF2 # "missing"

\* a variant of the chain read from its last branch
FirstMatchLast(page, sections) ==
    LET hits == {i \in DOMAIN Headings :
                    /\ Triggers(Headings[i]) \cap page.words # {}
                    /\ sections[Headings[i]].len = 0}
    IN  IF hits = {} THEN 0 ELSE CHOOSE i \in hits : \A j \in hits : i >= j

\* a variant of the chain without its 'and not sections[...]'
FirstMatchAny(page, sections) ==
    LET hits == {i \in DOMAIN Headings :
                    Triggers(Headings[i]) \cap page.words # {}}
    IN  IF hits = {} THEN 0 ELSE CHOOSE i \in hits : \A j \in hits : i <= j

\* the first heading of the chain the page matches and whose section is
\* still empty; 0 when there is none
FirstMatch(page, sections) ==
    LET hits == {i \in DOMAIN Headings :
                    /\ Triggers(Headings[i]) \cap page.words # {}
                    /\ sections[Headings[i]].len = 0}
    IN  IF hits = {} THEN 0 ELSE CHOOSE i \in hits : \A j \in hits : i <= j

\* the loop over pdf.pages of method 1
RECURSIVE PlumberPages(_, _, _)
PlumberPages(pages, i, acc) ==
    IF i > Len(pages) THEN acc
    ELSE LET page == pages[i]
             m == FirstMatch(page, acc.sections)
         IN  IF page.len = 0
             THEN PlumberPages(pages, i + 1, acc)
             ELSE PlumberPages(pages, i + 1,
                     [text |-> Append(acc.text, i),
                      sections |-> IF m = 0 THEN acc.sections
                                   ELSE [acc.sections EXCEPT
                                            ![Headings[m]] = Excerpt(page, i)]])

\* full_text is kept as the pages whose text it concatenates, or as the
\* byte count the sentence of method 3 quotes
Method1(pdf) ==
    LET r == PlumberPages(pdf.pages, 1,
                 [text |-> <<>>,
                  sections |-> [h \in Range(Headings) |-> NoExcerpt]])
    IN  [full_text |-> [pages |-> r.text, failed_bytes |-> 0],
         sections |-> r.sections,
         extraction_method |-> "pdfplumber",
         page_count |-> Len(pdf.pages)]

\* the abstract of method 2 starts at the first 'abstract' of the text; the
\* character offsets that end it are not kept
Method2(pdf, env) ==
    LET Kept(i) == pdf.pages[i].len > 0 /\ ~(env.PyPDF2 = "page_raises" /\ i = 1)
        text == SelectSeq([i \in 1..Len(pdf.pages) |-> i], Kept)
        abs == {i \in Range(text) : "abstract" \in pdf.pages[i].words}
        note == [note |-> "Basic text extraction - sections not parsed"]
    IN  [full_text |-> [pages |-> text, failed_bytes |-> 0],
         sections |-> IF abs = {} THEN note
                      ELSE [note |-> note.note,
                            abstract |-> [page |-> CHOOSE i \in abs :
                                                      \A j \in abs : i <= j]],
         extraction_method |-> "PyPDF2",
         page_count |-> Len(pdf.pages)]

\* a variant of method 3 that gives the record up
Method3None(pdf) ==
    [full_text |-> [pages |-> <<>>, failed_bytes |-> 0],
     sections |-> [error |-> "PDF text extraction libraries not available"],
     extraction_method |-> "none",
     pdf_size |-> 0]

Method3(pdf) ==
    [full_text |-> [pages |-> <<>>, failed_bytes |-> pdf.size],
     sections |-> [error |-> "PDF text extraction libraries not available"],
     extraction_method |-> "fallback",
     pdf_size |-> pdf.size]

\* the whole function, as process_papers_for_full_text calls it
extract_text_from_pdf(pdf, env) ==
    IF use_pdfplumber(env) /\ env.pdfplumber = "ok" THEN Method1(pdf)
    ELSE IF use_pypdf2(env) /\ env.PyPDF2 # "raises" THEN Method2(pdf, env)
    ELSE Method3(pdf)

NotReturned == [extraction_method |-> "pending"]

\* no call of extract_text_from_pdf under way
ExtractIdle ==
    /\ ex_in = [pdf |-> [size |-> 0, pages |-> <<>>],
                env |-> [pdfplumber |-> "missing", PyPDF2 |-> "missing"]]
    /\ ex_out = [pc |-> "idle", tried |-> <<>>, result |-> NotReturned]

\* a call on some PDF in some environment
ExtractInit ==
    /\ ex_in \in [pdf : Pdfs, env : Envs]
    /\ ex_out = [pc |-> "method1", tried |-> <<>>, result |-> NotReturned]

\* Method 1: pdfplumber, when the import succeeded; its result is returned
\* unless it raises
ExtractMethod1 ==
    /\ ex_out.pc = "method1"
    /\ ex_out' =
          IF ~use_pdfplumber(ex_in.env)
          THEN [ex_out EXCEPT !.pc = "method2"]
          ELSE IF ex_in.env.pdfplumber = "raises"
          THEN [ex_out EXCEPT !.pc = "method2",
                              !.tried = Append(@, "pdfplumber")]
          ELSE [pc |-> "returned", tried |-> Append(ex_out.tried, "pdfplumber"),
                result |-> Method1(ex_in.pdf)]
    /\ UNCHANGED ex_in
    /\ UNCHANGED notExtract

\* Method 2: PyPDF2
ExtractMethod2 ==
    /\ ex_out.pc = "method2"
    /\ ex_out' =
          IF ~use_pypdf2(ex_in.env)
          THEN [ex_out EXCEPT !.pc = "method3"]
          ELSE IF ex_in.env.PyPDF2 = "raises"
          THEN [ex_out EXCEPT !.pc = "method3", !.tried = Append(@, "PyPDF2")]
          ELSE [pc |-> "returned", tried |-> Append(ex_out.tried, "PyPDF2"),
                result |-> Method2(ex_in.pdf, ex_in.env)]
    /\ UNCHANGED ex_in
    /\ UNCHANGED notExtract

\* Method 3: the basic record
ExtractMethod3 ==
    /\ ex_out.pc = "method3"
    /\ ex_out' = [pc |-> "returned", tried |-> Append(ex_out.tried, "fallback"),
                  result |-> Method3(ex_in.pdf)]
    /\ UNCHANGED ex_in
    /\ UNCHANGED notExtract

NextExtract ==
    \/ ExtractMethod1
    \/ ExtractMethod2
    \/ ExtractMethod3

(***************************************************************************)
(* The crawl Lambda (package/main.py): handler, get_pdf_urls,              *)
(* download_pdf, process_papers_for_full_text, save_*_to_s3.               *)
(***************************************************************************)
\* the sources of the handler, in the order it goes through them
CrawlSources == <<"pmc", "pubmed", "europe_pmc">>

\* the invocations: a manual crawl, the scheduled crawl, a batch of S3
\* records, anything else.  max_pdfs is an integer unless malformed.
Events ==
    {[kind |-> "crawl", sources |-> ss, process_pdfs |-> FALSE, max_pdfs |-> 1,
      malformed |-> FALSE, records |-> 0] : ss \in SUBSET Range(CrawlSources)}
    \cup {[kind |-> "crawl", sources |-> ss, process_pdfs |-> TRUE, max_pdfs |-> m,
           malformed |-> FALSE, records |-> 0] :
             ss \in SUBSET Range(CrawlSources), m \in 1..MaxCands}
    \cup {[kind |-> "crawl", sources |-> ss, process_pdfs |-> TRUE, max_pdfs |-> 1,
           malformed |-> TRUE, records |-> 0] : ss \in SUBSET Range(CrawlSources)}
    \cup {[kind |-> "scheduled", sources |-> {"pmc", "europe_pmc"},
           process_pdfs |-> FALSE, max_pdfs |-> 1, malformed |-> FALSE,
           records |-> 0]}
    \cup {[kind |-> "records", sources |-> {}, process_pdfs |-> FALSE,
           max_pdfs |-> 1, malformed |-> FALSE, records |-> n] : n \in 1..MaxCands}
    \cup {[kind |-> "other", sources |-> {}, process_pdfs |-> FALSE, max_pdfs |-> 1,
           malformed |-> FALSE, records |-> 0]}

\* the next source, from position i on, the handler crawls for the event
RECURSIVE NextSource(_, _)
NextSource(ev, i) ==
    IF i > Len(CrawlSources) THEN i
    ELSE IF CrawlSources[i] \in ev.sources THEN i
    ELSE NextSource(ev, i + 1)

\* what a crawl_* function returns: the papers found, none when the source
\* has nothing or the request raised (the function catches and returns []).
\* A paper is its pmcid and its pmid, 0 for ''.
CrawlResults(src) ==
    CASE src = "pmc" ->
            {[i \in 1..k |-> [pmcid |-> i, pmid |-> 0]] : k \in 0..MaxCands}
      [] src = "pubmed" ->
            {[i \in 1..k |-> [pmcid |-> 0, pmid |-> i]] : k \in 0..MaxCands}
      [] src = "europe_pmc" ->
            {<<>>} \cup {<<p>> : p \in {[pmcid |-> 1, pmid |-> 1],
                                        [pmcid |-> 0, pmid |-> 1],
                                        [pmcid |-> 0, pmid |-> 0]}}

NoId == [kind |-> "none", n |-> 0]

\* paper.get('pmcid') or paper.get('pmid')
PaperId(paper) ==
    IF paper.pmcid # 0 THEN [kind |-> "pmcid", n |-> paper.pmcid]
    ELSE IF paper.pmid # 0 THEN [kind |-> "pmid", n |-> paper.pmid]
    ELSE NoId

\* the four URL forms of a PMC id (the last is the FTP one), the first three
\* for an id found through elink
PmcUrls(n, forms) == [f \in 1..forms |-> [pmc |-> n, form |-> f]]

\* what the elink request of a PubMed-only paper gives
ElinkOutcomes == {"unused", "error", "nolink", "linked"}

PotentialUrls(paper, elink) ==
    IF paper.pmcid # 0 THEN PmcUrls(paper.pmcid, 4)
    ELSE IF paper.pmid # 0 /\ elink = "linked" THEN PmcUrls(paper.pmid, 3)
    ELSE <<>>

RECURSIVE get_pdf_urls(_, _, _)
get_pdf_urls(papers, elinks, i) ==
    IF i > Len(papers) THEN <<>>
    ELSE LET urls == PotentialUrls(papers[i], elinks[i])
             rest == get_pdf_urls(papers, elinks, i + 1)
         IN  IF urls = <<>> THEN rest
             ELSE <<[paper_id |-> PaperId(papers[i]), pdf_urls |-> urls,
                     paper |-> papers[i]]>> \o rest

\* the elink outcomes of a list of papers: asked only for a paper that has a
\* pmid and no pmcid
Elinks(papers) ==
    {el \in [DOMAIN papers -> ElinkOutcomes] :
        \A i \in DOMAIN papers :
            el[i] = "unused" <=> ~(papers[i].pmcid = 0 /\ papers[i].pmid # 0)}

\* a variant without the slice
TruncateNone(s, n) == s

\* pdf_urls[:max_pdfs]
Truncate(s, n) == SubSeq(s, 1, IF n < Len(s) THEN n ELSE Len(s))

\* what a URL answers to requests.get
NotAsked == [kind |-> "unasked", status |-> 0, ctype |-> "", body |-> 0]

Rejected ==
    {[kind |-> "raised", status |-> 0, ctype |-> "", body |-> 0],
     [kind |-> "response", status |-> 404, ctype |-> "text/html", body |-> 0],
     [kind |-> "response", status |-> 200, ctype |-> "text/html", body |-> 0]}

Pdf200 ==
    {[kind |-> "response", status |-> 200, ctype |-> "application/pdf", body |-> b] :
        b \in Bodies}

\* 'pdf' in content_type.lower()
PdfType(ctype) == ctype = "application/pdf"

\* the condition under which download_pdf returns response.content
Accepts(r) == r.kind = "response" /\ r.status = 200 /\ PdfType(r.ctype)

\* the answers of a list of n URLs: rejected ones, then possibly a PDF; what
\* the URLs after a PDF would answer is left open
Answers(n) ==
    [1..n -> Rejected]
    \cup UNION {{fr \o <<ok>> \o [i \in 1..(n - k - 1) |-> NotAsked] :
                    fr \in [1..k -> Rejected], ok \in Pdf200} : k \in 0..(n - 1)}

\* download_pdf: the loop over the URLs, with the attempts it logs; content 0
\* is None
RECURSIVE download_pdf(_, _, _, _)
download_pdf(pdf_urls, answers, i, log) ==
    IF i > Len(pdf_urls) THEN [content |-> 0, attempts |-> log]
    ELSE LET r == answers[i]
             log2 == Append(log, [url |-> pdf_urls[i], reply |-> r])
         IN  IF Accepts(r) THEN [content |-> r.body, attempts |-> log2]
             ELSE download_pdf(pdf_urls, answers, i + 1, log2)

\* the PDF a byte sequence is: its first page holds the abstract
PdfOf(b) ==
    [size |-> PdfSize(b),
     pages |-> <<[len |-> 800, words |-> {"abstract"}],
                 [len |-> 300, words |-> {"result"}]>>]

\* the byte sequences downloaded so far; a new one takes the next name
FetchedBodies(f) == {x.body : x \in f}

\* the object keys of the Lambda: {prefix}/{source}/[{paper_id}_]{timestamp}
MetadataKey(src, ts) ==
    [prefix |-> "metadata", source |-> src, paper_id |-> NoId, timestamp |-> ts]

FullTextKey(src, paper_id, ts) ==
    [prefix |-> "fulltext", source |-> src, paper_id |-> paper_id, timestamp |-> ts]

NoKey == [prefix |-> "none", source |-> "", paper_id |-> NoId, timestamp |-> 0]

\* the JSON save_papers_to_s3 writes
MetadataContent(src, papers) ==
    [source |-> src, count |-> Len(papers), papers |-> papers]

\* the JSON save_full_text_to_s3 writes (processed_at is the timestamp of
\* the key; word_count is a function of full_text and is not kept)
FullTextContent(src, paper_id, paper, data) ==
    [paper_id |-> paper_id, source |-> src, metadata |-> paper,
     full_text |-> data.full_text, sections |-> data.sections]

NoFetch == [paper_id |-> NoId, attempts |-> <<>>, last |-> NotAsked, content |-> 0,
            key |-> NoKey, failed |-> FALSE]

NoProc == [papers |-> <<>>, queue |-> <<>>, idx |-> 1, processed |-> 0, failed |-> 0]

\* the Lambda is not invoked
CrawlIdle ==
    /\ event = [kind |-> "none", sources |-> {}, process_pdfs |-> FALSE,
                max_pdfs |-> 1, malformed |-> FALSE, records |-> 0]
    /\ hpc = [pc |-> "idle", i |-> 1]
    /\ results = [crawled_papers |-> 0, processed_documents |-> 0, errors |-> <<>>]
    /\ response = [statusCode |-> 0, success |-> FALSE]
    /\ proc = NoProc
    /\ fetch = NoFetch
    /\ lambda_s3 = {}
    /\ clock = 1
    /\ fetched = {}
    /\ dropped = 0
    /\ inv = [n |-> 1, before |-> {}]

\* handler(event, context) is entered
CrawlInit ==
    /\ event \in Events
    /\ hpc = [pc |-> IF event.kind = "records" THEN "records" ELSE "crawl",
              i |-> NextSource(event, 1)]
    /\ results = [crawled_papers |-> 0, processed_documents |-> 0, errors |-> <<>>]
    /\ response = [statusCode |-> 0, success |-> FALSE]
    /\ proc = NoProc
    /\ fetch = NoFetch
    /\ lambda_s3 = {}
    /\ clock = 1
    /\ fetched = {}
    /\ dropped = 0
    /\ inv = [n |-> 1, before |-> {}]

\* one source of the handler: crawl_*, then, when papers came back,
\* save_papers_to_s3 (which logs a failed put and returns) and the count
CrawlSource ==
    /\ hpc.pc = "crawl"
    /\ hpc.i <= Len(CrawlSources)
    /\ LET src == CrawlSources[hpc.i]
           next == [hpc EXCEPT !.i = NextSource(event, hpc.i + 1)]
       IN  \E papers \in CrawlResults(src), s3ok \in BOOLEAN :
              /\ results.crawled_papers + Len(papers) <= MaxCands
              /\ papers = <<>> => s3ok
              /\ IF papers = <<>>
                 THEN /\ hpc' = next
                      /\ UNCHANGED <<results, proc, lambda_s3, clock, dropped>>
                 ELSE /\ lambda_s3' =
                            IF s3ok
                            THEN lambda_s3 \cup
                                   {[key |-> MetadataKey(src, clock),
                                     content |-> MetadataContent(src, papers)]}
                            ELSE lambda_s3
                      /\ dropped' = IF s3ok THEN dropped ELSE dropped + 1
                      /\ clock' = clock + 1
                      /\ results' = [results EXCEPT !.crawled_papers = @ + Len(papers)]
                      /\ IF event.process_pdfs
                         THEN /\ hpc' = [hpc EXCEPT !.pc = "urls"]
                              /\ proc' = [NoProc EXCEPT !.papers = papers]
                         ELSE /\ hpc' = next
                              /\ UNCHANGED proc
    /\ UNCHANGED <<event, inv, response, fetch, fetched>>
    /\ UNCHANGED notCrawl

\* process_papers_for_full_text up to its loop: get_pdf_urls and the slice
GetPdfUrls ==
    /\ hpc.pc = "urls"
    /\ ~event.malformed
    /\ \E el \in Elinks(proc.papers) :
          proc' = [proc EXCEPT !.queue =
                      Truncate(get_pdf_urls(proc.papers, el, 1), event.max_pdfs)]
    /\ hpc' = [hpc EXCEPT !.pc = "pdfs"]
    /\ UNCHANGED <<event, inv, results, response, fetch, lambda_s3, clock, fetched, dropped>>
    /\ UNCHANGED notCrawl

\* pdf_urls[:max_pdfs] raises on a max_pdfs that is not an integer; nothing
\* catches it before the handler's except, which answers 500
SliceRaises ==
    /\ hpc.pc = "urls"
    /\ event.malformed
    /\ response' = [statusCode |-> 500, success |-> FALSE]
    /\ hpc' = [hpc EXCEPT !.pc = "returned"]
    /\ UNCHANGED <<event, inv, results, proc, fetch, lambda_s3, clock, fetched, dropped>>
    /\ UNCHANGED notCrawl

\* what download_pdf can do on a list of URLs: the content it returns, the
\* URLs it requested, in order, and the reply to the last of them
Downloads(pdf_urls) ==
    {[content |-> d.content,
      attempts |-> [i \in DOMAIN d.attempts |-> d.attempts[i].url],
      last |-> d.attempts[Len(d.attempts)].reply] :
        d \in {download_pdf(pdf_urls, answers, 1, <<>>) :
                  answers \in Answers(Len(pdf_urls))}}

\* what extract_text_from_pdf can return on a PDF
Extractions(pdf) == {extract_text_from_pdf(pdf, env) : env \in Envs}

\* one iteration of the loop of process_papers_for_full_text: download_pdf,
\* extract_text_from_pdf, save_full_text_to_s3
ProcessPdf ==
    /\ hpc.pc = "pdfs"
    /\ proc.idx <= Len(proc.queue)
    /\ LET info == proc.queue[proc.idx]
           src == CrawlSources[hpc.i]
           key == FullTextKey(src, info.paper_id, clock)
       IN  \E d \in Downloads(info.pdf_urls) :
              IF d.content = 0
              THEN /\ proc' = [proc EXCEPT !.idx = @ + 1, !.failed = @ + 1]
                   /\ fetch' = [paper_id |-> info.paper_id, attempts |-> d.attempts,
                                last |-> d.last, content |-> 0, key |-> NoKey,
                                failed |-> TRUE]
                   /\ UNCHANGED <<lambda_s3, clock, fetched, dropped>>
              ELSE \E data \in Extractions(PdfOf(d.content)), s3ok \in BOOLEAN :
                   /\ d.content <= Cardinality(FetchedBodies(fetched)) + 1
                   /\ fetched' = fetched \cup
                          {[source |-> src, paper_id |-> info.paper_id,
                            body |-> d.content,
                            key |-> IF s3ok THEN key ELSE NoKey]}
                   /\ clock' = clock + 1
                   /\ fetch' = [paper_id |-> info.paper_id, attempts |-> d.attempts,
                                last |-> d.last, content |-> d.content,
                                key |-> IF s3ok THEN key ELSE NoKey,
                                failed |-> ~s3ok]
                   /\ IF s3ok
                      THEN /\ lambda_s3' = lambda_s3 \cup
                                 {[key |-> key,
                                   content |-> FullTextContent(src, info.paper_id,
                                                               info.paper, data)]}
                           /\ proc' = [proc EXCEPT !.idx = @ + 1, !.processed = @ + 1]
                           /\ UNCHANGED dropped
                      ELSE /\ proc' = [proc EXCEPT !.idx = @ + 1, !.failed = @ + 1]
                           /\ dropped' = dropped + 1
                           /\ UNCHANGED lambda_s3
    /\ UNCHANGED <<event, inv, hpc, results, response>>
    /\ UNCHANGED notCrawl

\* process_papers_for_full_text returns its two counts to the handler
ProcessReturns ==
    /\ hpc.pc = "pdfs"
    /\ proc.idx > Len(proc.queue)
    /\ results' = [results EXCEPT
                      !.processed_documents = @ + proc.processed,
                      !.errors = IF proc.failed > 0
                                 THEN Append(@, [source |-> CrawlSources[hpc.i],
                                                 failed |-> proc.failed])
                                 ELSE @]
    /\ hpc' = [pc |-> "crawl", i |-> NextSource(event, hpc.i + 1)]
    /\ proc' = NoProc
    /\ fetch' = NoFetch
    /\ UNCHANGED <<event, inv, response, lambda_s3, clock, fetched, dropped>>
    /\ UNCHANGED notCrawl

\* the Records branch: each S3 record is logged and counted
HandleRecords ==
    /\ hpc.pc = "records"
    /\ results' = [results EXCEPT !.processed_documents = @ + event.records]
    /\ hpc' = [hpc EXCEPT !.pc = "crawl"]
    /\ UNCHANGED <<event, inv, response, proc, fetch, lambda_s3, clock, fetched, dropped>>
    /\ UNCHANGED notCrawl

\* the handler's return at the end of its try
HandlerReturns ==
    /\ hpc.pc = "crawl"
    /\ hpc.i > Len(CrawlSources)
    /\ response' = [statusCode |-> 200, success |-> TRUE]
    /\ hpc' = [hpc EXCEPT !.pc = "returned"]
    /\ UNCHANGED <<event, inv, results, proc, fetch, lambda_s3, clock, fetched, dropped>>
    /\ UNCHANGED notCrawl

\* the Lambda is invoked again with the same event on the same bucket: the
\* handler's locals start afresh, the bucket and the time carry on
HandlerInvokedAgain ==
    /\ hpc.pc = "returned"
    /\ inv.n < MaxRuns
    /\ inv' = [n |-> inv.n + 1, before |-> lambda_s3]
    /\ hpc' = [pc |-> IF event.kind = "records" THEN "records" ELSE "crawl",
               i |-> NextSource(event, 1)]
    /\ results' = [crawled_papers |-> 0, processed_documents |-> 0, errors |-> <<>>]
    /\ response' = [statusCode |-> 0, success |-> FALSE]
    /\ UNCHANGED <<event, proc, fetch, lambda_s3, clock, fetched, dropped>>
    /\ UNCHANGED notCrawl

NextCrawl ==
    \/ CrawlSource
    \/ GetPdfUrls
    \/ SliceRaises
    \/ ProcessPdf
    \/ ProcessReturns
    \/ HandleRecords
    \/ HandlerReturns

(***************************************************************************)
(* The GROBID Lambda (handler.py): lambda_handler, process_document,       *)
(* GROBIDProcessor.process_pdf.                                            *)
(***************************************************************************)
\* the records of an event: an S3 record, an SQS record whose body names a
\* document, an SQS record whose body does not parse or names none
RecordTypes == {"s3", "sqs", "sqs_skip"}

\* the lists of items of at most n elements, the keys named in the order of
\* their first appearance
RECURSIVE ItemLists(_, _)
ItemLists(types, n) ==
    IF n = 0 THEN {<<>>}
    ELSE LET shorter == ItemLists(types, n - 1)
         IN  shorter \cup
             UNION {{Append(s, [type |-> ty, key |-> k]) :
                        ty \in types,
                        k \in 1..(Cardinality({s[i].key : i \in DOMAIN s}) + 1)} :
                    s \in {x \in shorter : Len(x) = n - 1}}

\* the events lambda_handler tells apart
GrobidEvents ==
    {[kind |-> "records", items |-> s] : s \in ItemLists(RecordTypes, MaxCands)}
    \cup {[kind |-> "direct", items |-> <<[type |-> "doc", key |-> 1]>>]}
    \cup {[kind |-> "documents", items |-> s] : s \in ItemLists({"doc"}, MaxCands)}
    \cup {[kind |-> "other", items |-> <<>>]}

\* what the POST to GROBID does: TEI that parses, TEI that parse_tei_xml
\* cannot parse (it returns {}), a timeout, any other error
GrobidOutcomes == {"tei", "tei_unparsed", "timeout", "error"}

\* where a put_object of process_document raises: nowhere, at the JSON, at
\* the TEI
PutFailures == {"none", "json", "tei"}

GrobidKey(hash) == [prefix |-> "processed/grobid", hash |-> hash]

TeiKey(hash) == [prefix |-> "processed/tei", hash |-> hash]

\* s3_client.put_object: the object of the key is replaced
put_object(objects, key, content) ==
    {o \in objects : o.key # key} \cup {[key |-> key, content |-> content]}

\* the TEI document GROBID answers for a PDF
Tei(pdf_content) == [tei_of |-> pdf_content]

\* GROBIDProcessor.process_pdf
process_pdf(pdf_content, g) ==
    CASE g = "tei" -> [success |-> TRUE, data |-> "parsed",
                       tei_xml |-> Tei(pdf_content), error |-> ""]
      [] g = "tei_unparsed" -> [success |-> TRUE, data |-> "empty",
                                tei_xml |-> Tei(pdf_content), error |-> ""]
      [] g = "timeout" -> [success |-> FALSE, data |-> "", tei_xml |-> Tei(0),
                           error |-> "GROBID timeout"]
      [] g = "error" -> [success |-> FALSE, data |-> "", tei_xml |-> Tei(0),
                         error |-> "GROBID error"]

NoResult == [success |-> FALSE, doc_hash |-> 0, source_key |-> 0, error |-> "raised"]

\* process_document on the document of a key: pdf is what get_object gives
\* (0: it raises), g what GROBID does, fail where a put raises.  It returns a
\* result or raises, and leaves the training bucket as objects.
process_document(objects, key, pdf, g, fail) ==
    LET doc_hash == md5(pdf)
        result == process_pdf(pdf, g)
        json == [source_key |-> key, doc_hash |-> doc_hash,
                 grobid_result |-> result.data]
        withJson == put_object(objects, GrobidKey(doc_hash), json)
        withTei == put_object(withJson, TeiKey(doc_hash), result.tei_xml)
    IN  IF pdf = 0
        THEN [objects |-> objects, raised |-> TRUE, result |-> NoResult]
        ELSE IF ~result.success
        THEN [objects |-> objects, raised |-> FALSE,
              result |-> [success |-> FALSE, doc_hash |-> 0, source_key |-> key,
                          error |-> result.error]]
        ELSE IF fail = "json"
        THEN [objects |-> objects, raised |-> TRUE, result |-> NoResult]
        ELSE IF fail = "tei"
        THEN [objects |-> withJson, raised |-> TRUE, result |-> NoResult]
        ELSE [objects |-> withTei, raised |-> FALSE,
              result |-> [success |-> TRUE, doc_hash |-> doc_hash,
                          source_key |-> key, error |-> ""]]

\* the ways process_document can go on a document: a put can only fail when
\* GROBID succeeded, GROBID is only called when the PDF was read
Runs ==
    {r \in [pdf : {0} \cup Bodies, g : GrobidOutcomes, fail : PutFailures] :
        /\ r.pdf = 0 => r.g = "tei"
        /\ (r.pdf = 0 \/ r.g \in {"timeout", "error"}) => r.fail = "none"}

\* the Lambda is not invoked
GrobidIdle ==
    /\ gevent = [kind |-> "none", items |-> <<>>]
    /\ gpc = [pc |-> "idle", i |-> 1]
    /\ gresults = <<>>
    /\ training = {}
    /\ gresponse = [statusCode |-> 0, processed |-> 0, successful |-> 0, failed |-> 0]

\* lambda_handler(event, context) is entered
GrobidInit ==
    /\ gevent \in GrobidEvents
    /\ gpc = [pc |-> "loop", i |-> 1]
    /\ gresults = <<>>
    /\ training = {}
    /\ gresponse = [statusCode |-> 0, processed |-> 0, successful |-> 0, failed |-> 0]

\* an S3 record, the direct invocation, a document of a batch:
\* process_document is called outside any try, so what it raises ends the
\* invocation
ProcessDocument ==
    /\ gpc.pc = "loop"
    /\ gpc.i <= Len(gevent.items)
    /\ gevent.items[gpc.i].type \in {"s3", "doc"}
    /\ \E r \in Runs :
          LET out == process_document(training, gevent.items[gpc.i].key,
                                      r.pdf, r.g, r.fail)
          IN  /\ training' = out.objects
              /\ IF out.raised
                 THEN /\ gpc' = [gpc EXCEPT !.pc = "raised"]
                      /\ UNCHANGED gresults
                 ELSE /\ gpc' = [gpc EXCEPT !.i = @ + 1]
                      /\ gresults' = Append(gresults, out.result)
    /\ UNCHANGED <<gevent, gresponse>>
    /\ UNCHANGED notGrobid

\* an SQS record: json.loads and process_document are inside a try that
\* logs; a body without bucket and key is passed over
ProcessSqsRecord ==
    /\ gpc.pc = "loop"
    /\ gpc.i <= Len(gevent.items)
    /\ gevent.items[gpc.i].type \in {"sqs", "sqs_skip"}
    /\ IF gevent.items[gpc.i].type = "sqs_skip"
       THEN UNCHANGED <<training, gresults>>
       ELSE \E r \in Runs :
               LET out == process_document(training, gevent.items[gpc.i].key,
                                           r.pdf, r.g, r.fail)
               IN  /\ training' = out.objects
                   /\ gresults' = IF out.raised THEN gresults
                                  ELSE Append(gresults, out.result)
    /\ gpc' = [gpc EXCEPT !.i = @ + 1]
    /\ UNCHANGED <<gevent, gresponse>>
    /\ UNCHANGED notGrobid

\* the summary and the return
LambdaReturns ==
    /\ gpc.pc = "loop"
    /\ gpc.i > Len(gevent.items)
    /\ LET successful == Cardinality({i \in DOMAIN gresults : gresults[i].success})
       IN  gresponse' = [statusCode |-> 200, processed |-> Len(gresults),
                         successful |-> successful,
                         failed |-> Len(gresults) - successful]
    /\ gpc' = [gpc EXCEPT !.pc = "returned"]
    /\ UNCHANGED <<gevent, gresults, training>>
    /\ UNCHANGED notGrobid

NextGrobid ==
    \/ ProcessDocument
    \/ ProcessSqsRecord
    \/ LambdaReturns

(***************************************************************************)
(* The conference crawler (conference_crawler.py): crawl_with_requests,    *)
(* ConferenceCrawler.download_pdf.                                         *)
(***************************************************************************)
\* a link of the conference page: its URL (the n-th of the page, ending in
\* .pdf or not) and its text, which is words and possibly punctuation
\* the lists of at most n links, the words of the titles named in the order
\* of their first appearance
RECURSIVE LinkPages(_)
LinkPages(n) ==
    IF n = 0 THEN {<<>>}
    ELSE LET shorter == LinkPages(n - 1)
         IN  shorter \cup
             UNION {{Append(s, [url |-> [n |-> n, ends_pdf |-> e],
                                title |-> [words |-> w, punct |-> p]]) :
                        e \in BOOLEAN, p \in BOOLEAN,
                        w \in 1..(Cardinality({s[i].title.words : i \in DOMAIN s}) + 1)} :
                    s \in {x \in shorter : Len(x) = n - 1}}

\* safe_title: the characters that are not word characters, spaces or
\* dashes are removed
SafeTitle(title) == title.words

\* raw/conferences/{conference}/{conference}_{date}_{safe_title}.pdf, on the
\* day of the crawl
ConfKey(title) == [prefix |-> "raw/conferences", safe_title |-> SafeTitle(title)]

\* what the GET of a link gives: it raises, a status raise_for_status
\* raises on, or a 200 with a content type
ConfReplies == Rejected \cup Pdf200

\* the condition under which download_pdf goes on to the upload
KeepsResponse(url, r) ==
    /\ r.kind = "response"
    /\ r.status = 200
    /\ ~(~PdfType(r.ctype) /\ ~url.ends_pdf)

\* upload_fileobj: the object of the key is replaced
upload_fileobj(objects, key, url, r) ==
    {o \in objects : o.key # key}
    \cup {[key |-> key, ctype |-> r.ctype, body |-> r.body,
           metadata |-> [source_url |-> url]]}

\* the crawler is not running
ConfIdle ==
    /\ cpc = [pc |-> "idle", i |-> 1, s3 |-> FALSE]
    /\ pdf_links = <<>>
    /\ conf_results = <<>>
    /\ conf_s3 = {}

\* crawl_with_requests is entered, by a crawler built with or without a
\* bucket
ConfInit ==
    /\ cpc \in {[pc |-> "page", i |-> 1, s3 |-> b] : b \in BOOLEAN}
    /\ pdf_links = <<>>
    /\ conf_results = <<>>
    /\ conf_s3 = {}

\* the GET of the conference page and extract_pdf_links
PageFetched ==
    /\ cpc.pc = "page"
    /\ pdf_links' \in LinkPages(MaxCands)
    /\ cpc' = [cpc EXCEPT !.pc = "links"]
    /\ UNCHANGED <<conf_results, conf_s3>>
    /\ UNCHANGED notConf

\* the GET of the conference page raises: the error is logged and the
\* results, empty, are returned
PageRaises ==
    /\ cpc.pc = "page"
    /\ cpc' = [cpc EXCEPT !.pc = "returned"]
    /\ UNCHANGED <<pdf_links, conf_results, conf_s3>>
    /\ UNCHANGED notConf

\* one link of the loop: download_pdf, and the append of what it returned
ConfDownloadPdf ==
    /\ cpc.pc = "links"
    /\ cpc.i <= Len(pdf_links)
    /\ LET link == pdf_links[cpc.i]
           key == ConfKey(link.title)
       IN  \E r \in ConfReplies, upload_ok \in BOOLEAN :
              /\ ~(KeepsResponse(link.url, r) /\ cpc.s3) => upload_ok
              /\ IF KeepsResponse(link.url, r) /\ cpc.s3 /\ upload_ok
                 THEN /\ conf_s3' = upload_fileobj(conf_s3, key, link.url, r)
                      /\ conf_results' = Append(conf_results,
                             [title |-> link.title, url |-> link.url, s3_key |-> key])
                 ELSE UNCHANGED <<conf_s3, conf_results>>
    /\ cpc' = [cpc EXCEPT !.i = @ + 1]
    /\ UNCHANGED pdf_links
    /\ UNCHANGED notConf

\* the loop is over: the results are returned
ConfReturns ==
    /\ cpc.pc = "links"
    /\ cpc.i > Len(pdf_links)
    /\ cpc' = [cpc EXCEPT !.pc = "returned"]
    /\ UNCHANGED <<pdf_links, conf_results, conf_s3>>
    /\ UNCHANGED notConf

NextConf ==
    \/ PageFetched
    \/ PageRaises
    \/ ConfDownloadPdf
    \/ ConfReturns

(***************************************************************************)
(* The Unpaywall crawler (unpaywall_crawler.py): process_doi_batch and the *)
(* worker threads of its ThreadPoolExecutor.                               *)
(***************************************************************************)
\* the most DOIs a batch has
MaxDois == 3

\* the most periods the main thread waits for a response
MaxWait == 1

\* ThreadPoolExecutor(max_workers=10)
max_workers == 10

\* time.sleep(0.1), "Rate limiting": one period of the sleep for each DOI
RequestsPerSleep == 1

\* a future that was submitted and no thread has taken
Pending == [state |-> "pending", sent |-> 0, result |-> "none"]

\* what search_by_doi returns: None (404, not open access, an exception it
\* caught) or the record of an open-access paper
SearchResults == {"none", "paper"}

Running == {d \in DOMAIN future : future[d].state = "running"}

\* the crawler is not running
UnpaywallIdle ==
    /\ future = <<>>
    /\ up_results = <<>>
    /\ upc = "idle"
    /\ now = 1

\* process_doi_batch(dois) has submitted search_by_doi for every DOI
\* (crawl_veterinary_journals calls it with a list that is not empty)
UnpaywallInit ==
    /\ future \in {[d \in 1..n |-> Pending] : n \in 1..MaxDois}
    /\ up_results = <<>>
    /\ upc = "as_completed"
    /\ now = 1

\* a thread of the pool takes the oldest future of the queue and sends its
\* request: search_by_doi's session.get
WorkerSends(d) ==
    /\ future[d].state = "pending"
    /\ \A e \in 1..(d - 1) : future[e].state # "pending"
    /\ Cardinality(Running) < max_workers
    /\ future' = [future EXCEPT ![d] = [state |-> "running", sent |-> now,
                                        result |-> "none"]]
    /\ UNCHANGED <<up_results, upc, now>>
    /\ UNCHANGED notUnpaywall

\* search_by_doi returns in its thread
WorkerReturns(d) ==
    /\ future[d].state = "running"
    /\ \E r \in SearchResults :
          future' = [future EXCEPT ![d].state = "done", ![d].result = r]
    /\ UNCHANGED <<up_results, upc, now>>
    /\ UNCHANGED notUnpaywall

\* the main thread waits in as_completed while requests are out
MainWaits ==
    /\ upc = "as_completed"
    /\ Running # {}
    /\ \A d \in DOMAIN future : future[d].state # "done"
    /\ now < MaxWait + 1
    /\ now' = now + 1
    /\ UNCHANGED <<future, up_results, upc>>
    /\ UNCHANGED notUnpaywall

\* one turn of the loop over as_completed: the result of a finished future,
\* download_paper for a paper, results.append, then time.sleep(0.1)
MainTakes(d) ==
    /\ upc = "as_completed"
    /\ future[d].state = "done"
    /\ future' = [future EXCEPT ![d].state = "yielded"]
    /\ IF future[d].result = "paper"
       THEN \E pdf_key \in BOOLEAN :
               up_results' = Append(up_results, [doi |-> d, pdf_s3_key |-> pdf_key])
       ELSE UNCHANGED up_results
    /\ now' = now + 1
    /\ UNCHANGED upc
    /\ UNCHANGED notUnpaywall

\* every future was yielded: the executor shuts down, results is returned
BatchReturns ==
    /\ upc = "as_completed"
    /\ \A d \in DOMAIN future : future[d].state = "yielded"
    /\ upc' = "returned"
    /\ UNCHANGED <<future, up_results, now>>
    /\ UNCHANGED notUnpaywall

WorkerSendsAny == \E d \in DOMAIN future : WorkerSends(d)

WorkerReturnsAny == \E d \in DOMAIN future : WorkerReturns(d)

MainTakesAny == \E d \in DOMAIN future : MainTakes(d)

NextUnpaywall ==
    \/ WorkerSendsAny
    \/ WorkerReturnsAny
    \/ MainWaits
    \/ MainTakesAny
    \/ BatchReturns

(***************************************************************************)
(* The IVIS crawler (ivis_crawler.py): crawl_all, crawl_proceedings,       *)
(* crawl_books, download_resource, login_with_requests.                    *)
(***************************************************************************)
\* the public calls on a new crawler: crawl_all with and without downloads,
\* crawl_proceedings and download_resource on their own
IvisCalls ==
    {[call |-> "crawl_all", download_pdfs |-> d, pc |-> "login", i |-> 1] :
        d \in BOOLEAN}
    \cup {[call |-> "crawl_proceedings", download_pdfs |-> FALSE,
           pc |-> "proceedings", i |-> 1],
          [call |-> "download_resource", download_pdfs |-> TRUE,
           pc |-> "downloads", i |-> 1]}

\* a section that was not requested
NoSection == [n |-> 0, served |-> "none"]

\* login_with_requests: on the site accepting the credentials (the response
\* holds 'logout') it sets self.logged_in; otherwise it changes nothing
login_with_requests(ok, flag, session) ==
    IF ok THEN [returns |-> TRUE, logged_in |-> TRUE, session |-> "authenticated"]
    ELSE [returns |-> FALSE, logged_in |-> flag, session |-> session]

\* the rows a section page shows: the listing to a session that is logged
\* in, the login form, which has no row, to any other
SectionRows(session) ==
    IF session = "authenticated" THEN 0..MaxCands ELSE {0}

\* the resources crawl_all downloads: the proceedings, then one chapter of
\* each book
Resources(res) == res.proceedings.n + res.books.n

\* the crawler is not in use
IvisIdle ==
    /\ logged_in = FALSE
    /\ ivis_session = "none"
    /\ ivis_pc = [call |-> "none", download_pdfs |-> FALSE, pc |-> "idle", i |-> 1]
    /\ ivis_results = [proceedings |-> NoSection, books |-> NoSection,
                       downloaded |-> 0]
    /\ ivis_sent = <<>>
    /\ logins = 0

\* IVISCrawler(username, password, s3_bucket) was built and a method called;
\* download_resource is given one resource
IvisInit ==
    /\ logged_in = FALSE
    /\ ivis_session = "none"
    /\ ivis_pc \in IvisCalls
    /\ ivis_results =
          [proceedings |-> IF ivis_pc.call = "download_resource"
                           THEN [n |-> 1, served |-> "none"] ELSE NoSection,
           books |-> NoSection, downloaded |-> 0]
    /\ ivis_sent = <<>>
    /\ logins = 0

\* crawl_all: "Login first"
IvisLogin ==
    /\ ivis_pc.pc = "login"
    /\ \E ok \in BOOLEAN :
          LET l == login_with_requests(ok, logged_in, ivis_session)
          IN  /\ logged_in' = l.logged_in
              /\ ivis_session' = l.session
              /\ ivis_pc' = [ivis_pc EXCEPT !.pc = IF l.returns THEN "proceedings"
                                                  ELSE "returned"]
    /\ logins' = logins + 1
    /\ UNCHANGED <<ivis_results, ivis_sent>>
    /\ UNCHANGED notIvis

\* crawl_proceedings and crawl_books: login when self.logged_in is not set
\* (return [] when it fails), then the GET of the section and its rows
CrawlSection(sec, next) ==
    /\ ivis_pc.pc = sec
    /\ \E ok \in BOOLEAN :
          LET l == IF logged_in
                   THEN [returns |-> TRUE, logged_in |-> TRUE,
                         session |-> ivis_session]
                   ELSE login_with_requests(ok, logged_in, ivis_session)
          IN  /\ logged_in => ok
              /\ logged_in' = l.logged_in
              /\ ivis_session' = l.session
              /\ logins' = IF logged_in THEN logins ELSE logins + 1
              /\ IF l.returns
                 THEN /\ \E n \in SectionRows(l.session) :
                            ivis_results' =
                               [ivis_results EXCEPT ![sec] =
                                   [n |-> n, served |-> l.session]]
                      /\ ivis_sent' = Append(ivis_sent,
                                             [what |-> sec, served |-> l.session])
                 ELSE UNCHANGED <<ivis_results, ivis_sent>>
    /\ ivis_pc' = [ivis_pc EXCEPT !.pc = IF ivis_pc.call = "crawl_all"
                                        THEN next ELSE "returned"]
    /\ UNCHANGED notIvis

crawl_proceedings == CrawlSection("proceedings", "books")

crawl_books == CrawlSection("books", "downloads")

\* download_resource, as crawl_all calls it for each resource: None at once
\* when self.logged_in is not set; otherwise the requests for the resource,
\* which give a PDF to upload only to a session that is logged in
download_resource ==
    /\ ivis_pc.pc = "downloads"
    /\ ivis_pc.download_pdfs
    /\ ivis_pc.i <= Resources(ivis_results)
    /\ IF ~logged_in
       THEN UNCHANGED <<ivis_results, ivis_sent>>
       ELSE /\ ivis_sent' = Append(ivis_sent, [what |-> "resource",
                                               served |-> ivis_session])
            /\ \E pdf_key \in BOOLEAN :
                  /\ pdf_key => ivis_session = "authenticated"
                  /\ ivis_results' =
                        [ivis_results EXCEPT !.downloaded =
                            IF pdf_key THEN @ + 1 ELSE @]
    /\ ivis_pc' = [ivis_pc EXCEPT !.i = @ + 1]
    /\ UNCHANGED <<logged_in, ivis_session, logins>>
    /\ UNCHANGED notIvis

\* the end of the call: crawl_all saves its metadata and returns results
IvisReturns ==
    /\ ivis_pc.pc = "downloads"
    /\ ivis_pc.download_pdfs => ivis_pc.i > Resources(ivis_results)
    /\ ivis_pc' = [ivis_pc EXCEPT !.pc = "returned"]
    /\ UNCHANGED <<logged_in, ivis_session, ivis_results, ivis_sent, logins>>
    /\ UNCHANGED notIvis

\* the site ends the session of the crawler
SessionExpires ==
    /\ ivis_pc.pc \notin {"idle", "returned"}
    /\ ivis_session = "authenticated"
    /\ ivis_session' = "expired"
    /\ UNCHANGED <<logged_in, ivis_pc, ivis_results, ivis_sent, logins>>
    /\ UNCHANGED notIvis

NextIvis ==
    \/ IvisLogin
    \/ crawl_proceedings
    \/ crawl_books
    \/ download_resource
    \/ IvisReturns
    \/ SessionExpires

(***************************************************************************)
(* The admin service (backend/services/admin.py): get_paper_stats and      *)
(* get_paper_sources, with the s3_client of backend/utils/s3.py and the    *)
(* cache_service of backend/services/cache.py they call.                   *)
(***************************************************************************)
\* the most objects under metadata/
MaxObjs == 2

\* the most calls of the admin methods in a behaviour
MaxAdminCalls == 2

\* the most papers a metadata file holds, the latest LastModified
MaxPapers == 1

MaxTime == 2

\* the sources whose metadata the bucket holds
AdminSources == {"pubmed", "europe_pmc"}

\* what the module-level s3_client is: the S3Client of utils/s3.py, with the
\* attributes that class gives it
S3ClientAttrs == {"client", "upload_file", "download_file", "delete_file"}

\* the parameters of CacheService.set
CacheSetParams == {"key", "value", "ttl"}

\* CacheService.get: "return None"
cache_get(key) == "None"

Listings ==
    UNION {[1..n -> [source : AdminSources, last_modified : 1..MaxTime,
                     papers : 0..MaxPapers, readable : BOOLEAN]] :
              n \in 0..MaxObjs}

\* the papers of the readable files of a source among the first i objects
RECURSIVE paper_count(_, _, _)
paper_count(objs, src, i) ==
    IF i = 0 THEN 0
    ELSE paper_count(objs, src, i - 1)
         + (IF objs[i].source = src /\ objs[i].readable THEN objs[i].papers ELSE 0)

\* the PaperStats of the except branch of get_paper_stats
FallbackStats ==
    [total_papers |-> 0, papers_by_source |-> [src \in AdminSources |-> 0],
     processed |-> 0, failed |-> 0, pending |-> 0, fallback |-> TRUE]

\* get_paper_stats on a bucket: the cache, the listing (an attribute the
\* client lacks raises AttributeError), the counts, the cache again (a
\* keyword set does not take raises TypeError); every exception leads to
\* the except branch
get_paper_stats(objs) ==
    IF cache_get("paper_stats") # "None" THEN cache_get("paper_stats")
    ELSE IF "list_objects_v2" \notin S3ClientAttrs THEN FallbackStats
    ELSE IF "expire" \notin CacheSetParams THEN FallbackStats
    ELSE LET by_source == [src \in AdminSources |-> paper_count(objs, src, Len(objs))]
             total == paper_count(objs, "pubmed", Len(objs))
                      + paper_count(objs, "europe_pmc", Len(objs))
         IN  [total_papers |-> total, papers_by_source |-> by_source,
              processed |-> total, failed |-> 0, pending |-> 0, fallback |-> FALSE]

\* a source get_paper_sources has not met
NoStats == [seen |-> FALSE, papers_acquired |-> 0, last_crawl |-> 0,
            error_count |-> 0]

\* the loop of get_paper_sources over the first i objects: source_stats
RECURSIVE source_stats(_, _)
source_stats(objs, i) ==
    IF i = 0 THEN [src \in AdminSources |-> NoStats]
    ELSE LET before == source_stats(objs, i - 1)
             o == objs[i]
             st == IF before[o.source].seen THEN before[o.source]
                   ELSE [seen |-> TRUE, papers_acquired |-> 0,
                         last_crawl |-> o.last_modified, error_count |-> 0]
             after == IF o.readable
                      THEN [st EXCEPT !.papers_acquired = @ + o.papers,
                                      !.last_crawl = IF o.last_modified > @
                                                     THEN o.last_modified ELSE @]
                      ELSE [st EXCEPT !.error_count = @ + 1]
         IN  [before EXCEPT ![o.source] = after]

\* the PaperSource of a source (last_crawl 0 is None)
PaperSource(st) ==
    [enabled |-> TRUE, last_crawl |-> st.last_crawl,
     papers_acquired |-> st.papers_acquired, error_count |-> st.error_count,
     api_status |-> IF st.error_count = 0 THEN "healthy" ELSE "degraded"]

\* the list of the except branch of get_paper_sources
FallbackSources ==
    [src \in AdminSources |->
        [enabled |-> TRUE, last_crawl |-> 0, papers_acquired |-> 0,
         error_count |-> 0, api_status |-> "down"]]

\* get_paper_sources: the sources it reports; it reports none for a source
\* without metadata
get_paper_sources(objs) ==
    IF "list_objects_v2" \notin S3ClientAttrs THEN FallbackSources
    ELSE LET stats == source_stats(objs, Len(objs))
         IN  [src \in {x \in AdminSources : stats[x].seen} |-> PaperSource(stats[src])]

\* nothing was asked of the admin service
AdminIdle ==
    /\ listing = <<>>
    /\ paper_stats = [returned |-> FALSE, stats |-> FallbackStats]
    /\ paper_sources = [returned |-> FALSE, sources |-> FallbackSources]
    /\ admin_calls = 0

\* the service is up, the bucket holds some metadata files
AdminInit ==
    /\ listing \in Listings
    /\ paper_stats = [returned |-> FALSE, stats |-> FallbackStats]
    /\ paper_sources = [returned |-> FALSE, sources |-> FallbackSources]
    /\ admin_calls = 0

GetPaperStats ==
    /\ admin_calls < MaxAdminCalls
    /\ paper_stats' = [returned |-> TRUE, stats |-> get_paper_stats(listing)]
    /\ admin_calls' = admin_calls + 1
    /\ UNCHANGED <<listing, paper_sources>>
    /\ UNCHANGED notAdmin

GetPaperSources ==
    /\ admin_calls < MaxAdminCalls
    /\ paper_sources' = [returned |-> TRUE, sources |-> get_paper_sources(listing)]
    /\ admin_calls' = admin_calls + 1
    /\ UNCHANGED <<listing, paper_stats>>
    /\ UNCHANGED notAdmin

NextAdmin ==
    \/ GetPaperStats
    \/ GetPaperSources

(***************************************************************************)
(* The evaluation endpoints (api/routers/admin.py) and the methods of      *)
(* AdminService they call (services/admin.py), as coroutines of one event  *)
(* loop: a coroutine runs from one await to the next without interruption, *)
(* a task made by asyncio.create_task and the handler of a request that    *)
(* arrives wait in the loop's queue of ready callbacks, and                *)
(* asyncio.sleep puts its caller back in that queue when its time is up.   *)
(***************************************************************************)
\* the most runs started, benchmarks of a request and requests waiting in
\* the queue
MaxEvalRuns == 1

MaxBenchmarks == 2

MaxReady == 2

\* str(uuid4()): the n-th run id
RunIds == 1..MaxEvalRuns

\* the calls of stream_evaluation_progress that are followed: streams read
\* evaluation_runs and write nothing another coroutine reads
StreamIds == {1}

\* a run id that is not a key of evaluation_runs
NoRun == [status |-> "absent", progress |-> 0, results |-> 0]

NoTask == [pc |-> "none", i |-> 0, nb |-> 0]

NoLookup == [call |-> "none", run_id |-> 0, issued |-> FALSE, found |-> FALSE]

NoStream == [pc |-> "none", run_id |-> 0, issued |-> FALSE, last_progress |-> 0,
             events |-> <<>>]

\* a variant of the queue that runs the newest callback first
call_soon_first(q, h) == <<h>> \o q

\* loop.call_soon, which asyncio.create_task and the server use to start a
\* coroutine: the callback goes to the end of the queue
call_soon(q, h) == Append(q, h)

\* a variant of the completion test that never ends the stream
TerminalNever(run) == FALSE

\* status in ['completed', 'failed']
Terminal(run) == run.status \in {"completed", "failed"}

\* no evaluation was asked for
EvalIdle ==
    /\ evaluation_runs = [r \in RunIds |-> NoRun]
    /\ eval_tasks = [r \in RunIds |-> NoTask]
    /\ ready = <<>>
    /\ issued = {}
    /\ lookup = NoLookup
    /\ streams = [s \in StreamIds |-> NoStream]

\* AdminService(): self.evaluation_runs = {}
EvalInit == EvalIdle

\* POST /evaluation/run: a viewer is refused; otherwise the run id is drawn,
\* the task of run_evaluation is created and the run is returned
StartEvaluation ==
    /\ Cardinality(issued) < MaxEvalRuns
    /\ \E role \in {"viewer", "admin"}, nb \in 0..MaxBenchmarks :
          IF role = "viewer"
          THEN UNCHANGED evalVars
          ELSE LET run_id == Cardinality(issued) + 1
               IN  /\ eval_tasks' = [eval_tasks EXCEPT ![run_id] =
                                        [pc |-> "created", i |-> 0, nb |-> nb]]
                   /\ ready' = call_soon(ready, [kind |-> "task", id |-> run_id,
                                                 issued |-> TRUE])
                   /\ issued' = issued \cup {run_id}
                   /\ UNCHANGED <<evaluation_runs, lookup, streams>>
    /\ UNCHANGED notEval

\* a request GET /evaluation/runs/{run_id} arrives: its handler is started
RequestRun(r) ==
    /\ Len(ready) < MaxReady
    /\ ready' = call_soon(ready, [kind |-> "get", id |-> r, issued |-> r \in issued])
    /\ UNCHANGED <<evaluation_runs, eval_tasks, issued, lookup, streams>>
    /\ UNCHANGED notEval

\* a request GET /evaluation/runs/{run_id}/stream arrives
RequestStream(r) ==
    /\ Len(ready) < MaxReady
    /\ \E s \in StreamIds :
          /\ streams[s].pc = "none"
          /\ \A t \in StreamIds : t < s => streams[t].pc # "none"
          /\ streams' = [streams EXCEPT ![s] =
                            [NoStream EXCEPT !.pc = "called", !.run_id = r,
                                             !.issued = r \in issued]]
          /\ ready' = call_soon(ready, [kind |-> "stream", id |-> s,
                                        issued |-> r \in issued])
    /\ UNCHANGED <<evaluation_runs, eval_tasks, issued, lookup>>
    /\ UNCHANGED notEval

\* run_evaluation up to its first await: the run is stored as running, the
\* progress of the first benchmark is set; with no benchmark it completes
RunEvaluationStarts ==
    /\ ready # <<>>
    /\ Head(ready).kind = "task"
    /\ LET r == Head(ready).id
           t == eval_tasks[r]
       IN  /\ t.pc = "created"
           /\ IF t.nb = 0
              THEN /\ evaluation_runs' = [evaluation_runs EXCEPT ![r] =
                                             [NoRun EXCEPT !.status = "completed"]]
                   /\ eval_tasks' = [eval_tasks EXCEPT ![r].pc = "done"]
              ELSE /\ evaluation_runs' = [evaluation_runs EXCEPT ![r] =
                                             [status |-> "running", progress |-> 1,
                                              results |-> 0]]
                   /\ eval_tasks' = [eval_tasks EXCEPT ![r].pc = "sleeping",
                                                       ![r].i = 1]
    /\ ready' = Tail(ready)
    /\ UNCHANGED <<issued, lookup, streams>>
    /\ UNCHANGED notEval

\* run_evaluation from the end of a sleep to the next await or to its end:
\* the results of the benchmark, then the next benchmark or 'completed';
\* an exception in the try ends it as 'failed'
RunEvaluationResumes ==
    /\ ready # <<>>
    /\ Head(ready).kind = "task"
    /\ LET r == Head(ready).id
           t == eval_tasks[r]
           run == evaluation_runs[r]
       IN  /\ t.pc = "woken"
           /\ \E raises \in BOOLEAN :
                 IF raises
                 THEN /\ evaluation_runs' = [evaluation_runs EXCEPT
                                                ![r].status = "failed"]
                      /\ eval_tasks' = [eval_tasks EXCEPT ![r].pc = "done"]
                 ELSE IF t.i = t.nb
                 THEN /\ evaluation_runs' = [evaluation_runs EXCEPT
                                                ![r].results = t.i,
                                                ![r].status = "completed"]
                      /\ eval_tasks' = [eval_tasks EXCEPT ![r].pc = "done"]
                 ELSE /\ evaluation_runs' = [evaluation_runs EXCEPT
                                                ![r].results = t.i,
                                                ![r].progress = t.i + 1]
                      /\ eval_tasks' = [eval_tasks EXCEPT ![r].pc = "sleeping",
                                                          ![r].i = t.i + 1]
    /\ ready' = Tail(ready)
    /\ UNCHANGED <<issued, lookup, streams>>
    /\ UNCHANGED notEval

\* the asyncio.sleep(5) of a run_evaluation is over
EvaluationWakes(r) ==
    /\ eval_tasks[r].pc = "sleeping"
    /\ eval_tasks' = [eval_tasks EXCEPT ![r].pc = "woken"]
    /\ ready' = call_soon(ready, [kind |-> "task", id |-> r, issued |-> TRUE])
    /\ UNCHANGED <<evaluation_runs, issued, lookup, streams>>
    /\ UNCHANGED notEval

\* get_evaluation_run: None when the id is not a key
GetEvaluationRun ==
    /\ ready # <<>>
    /\ Head(ready).kind = "get"
    /\ LET h == Head(ready)
       IN  lookup' = [call |-> "get_evaluation_run", run_id |-> h.id,
                      issued |-> h.issued,
                      found |-> evaluation_runs[h.id].status # "absent"]
    /\ ready' = Tail(ready)
    /\ UNCHANGED <<evaluation_runs, eval_tasks, issued, streams>>
    /\ UNCHANGED notEval

\* one pass of the while loop of stream_evaluation_progress up to its next
\* yield or await: a changed progress is yielded; otherwise a terminal run
\* yields 'complete' and the generator ends; otherwise it sleeps
StreamPass(st, run) ==
    IF run.progress # st.last_progress
    THEN [st EXCEPT !.pc = "yielded",
                    !.events = Append(@, [type |-> "progress", status |-> run.status,
                                          progress |-> run.progress])]
    ELSE IF Terminal(run)
    THEN [st EXCEPT !.pc = "done",
                    !.events = Append(@, [type |-> "complete", status |-> run.status,
                                          progress |-> run.results])]
    ELSE [st EXCEPT !.pc = "sleeping"]

\* the queue after the turn of the stream at its head: the consumer of a
\* yielded event hands the loop back before it asks for the next
ReadyAfter(st) ==
    IF st.pc = "yielded" THEN call_soon(Tail(ready), Head(ready)) ELSE Tail(ready)

\* stream_evaluation_progress is entered: an id that is not a key yields the
\* error and returns; otherwise the first pass of the loop
StreamStarts ==
    /\ ready # <<>>
    /\ Head(ready).kind = "stream"
    /\ LET s == Head(ready).id
           st == streams[s]
           found == evaluation_runs[st.run_id].status # "absent"
           after == IF found THEN StreamPass(st, evaluation_runs[st.run_id])
                    ELSE [st EXCEPT !.pc = "done",
                                    !.events = <<[type |-> "error", status |-> "absent",
                                                  progress |-> 0]>>]
       IN  /\ st.pc = "called"
           /\ lookup' = [call |-> "stream_evaluation_progress", run_id |-> st.run_id,
                         issued |-> st.issued, found |-> found]
           /\ streams' = [streams EXCEPT ![s] = after]
           /\ ready' = ReadyAfter(after)
    /\ UNCHANGED <<evaluation_runs, eval_tasks, issued>>
    /\ UNCHANGED notEval

\* the generator is resumed after the yield of a progress event: it copies
\* the progress as it is now, then tests the status
StreamResumes ==
    /\ ready # <<>>
    /\ Head(ready).kind = "stream"
    /\ LET s == Head(ready).id
           run == evaluation_runs[streams[s].run_id]
           after == StreamPass([streams[s] EXCEPT !.last_progress = run.progress], run)
       IN  /\ streams[s].pc = "yielded"
           /\ streams' = [streams EXCEPT ![s] = after]
           /\ ready' = ReadyAfter(after)
    /\ UNCHANGED <<evaluation_runs, eval_tasks, issued, lookup>>
    /\ UNCHANGED notEval

\* the generator is resumed after its sleep: the next pass
StreamLoops ==
    /\ ready # <<>>
    /\ Head(ready).kind = "stream"
    /\ LET s == Head(ready).id
           after == StreamPass(streams[s], evaluation_runs[streams[s].run_id])
       IN  /\ streams[s].pc = "woken"
           /\ streams' = [streams EXCEPT ![s] = after]
           /\ ready' = ReadyAfter(after)
    /\ UNCHANGED <<evaluation_runs, eval_tasks, issued, lookup>>
    /\ UNCHANGED notEval

\* the asyncio.sleep(1) of a stream is over
StreamWakes(s) ==
    /\ streams[s].pc = "sleeping"
    /\ streams' = [streams EXCEPT ![s].pc = "woken"]
    /\ ready' = call_soon(ready, [kind |-> "stream", id |-> s,
                                  issued |-> streams[s].issued])
    /\ UNCHANGED <<evaluation_runs, eval_tasks, issued, lookup>>
    /\ UNCHANGED notEval

NextEval ==
    \/ StartEvaluation
    \/ \E r \in RunIds : RequestRun(r)
    \/ \E r \in RunIds : RequestStream(r)
    \/ RunEvaluationStarts
    \/ RunEvaluationResumes
    \/ \E r \in RunIds : EvaluationWakes(r)
    \/ GetEvaluationRun
    \/ StreamStarts
    \/ StreamResumes
    \/ StreamLoops
    \/ \E s \in StreamIds : StreamWakes(s)

\* the loop runs the callback at the head of its queue
RunOnce ==
    \/ RunEvaluationStarts
    \/ RunEvaluationResumes
    \/ GetEvaluationRun
    \/ StreamStarts
    \/ StreamResumes
    \/ StreamLoops

(***************************************************************************)
(* RateLimitMiddleware (api/middleware/rate_limit.py).  dispatch has no    *)
(* await before call_next, so on the event loop it reads, cleans and       *)
(* appends to self.requests in one step.                                   *)
(***************************************************************************)
\* calls_per_minute of the constructor, the most requests
calls_per_minute == 2

MaxRequests == 4

\* current_time - req_time < 60
Window == 60

ClientIps == {"10.0.0.1", "10.0.0.2"}

\* the seconds between a request and the one before it
Delays == {0, 1, 59, 60}

\* a variant that keeps every recorded time
CleanNone(times, t) == times

\* the list comprehension of dispatch: the recorded times still in the window
Clean(times, t) == SelectSeq(times, LAMBDA x : t - x < Window)

\* the middleware is not installed
RateIdle ==
    /\ requests = [ip \in ClientIps |-> <<>>]
    /\ rl_now = 0
    /\ passed = [ip \in ClientIps |-> <<>>]
    /\ rl_last = [ip |-> "", time |-> 0, status |-> 0, n |-> 0]

\* RateLimitMiddleware(app, calls_per_minute): self.requests is empty
RateInit == RateIdle

\* dispatch of a request of client ip that comes d seconds after the one
\* before it
Dispatch(ip, d) ==
    /\ rl_last.n < MaxRequests
    /\ LET current_time == rl_now + d
           kept == Clean(requests[ip], current_time)
       IN  /\ rl_now' = current_time
           /\ IF Len(kept) >= calls_per_minute
              THEN /\ requests' = [requests EXCEPT ![ip] = kept]
                   /\ rl_last' = [ip |-> ip, time |-> current_time, status |-> 429,
                                  n |-> rl_last.n + 1]
                   /\ UNCHANGED passed
              ELSE /\ requests' = [requests EXCEPT ![ip] = Append(kept, current_time)]
                   /\ passed' = [passed EXCEPT ![ip] = Append(@, current_time)]
                   /\ rl_last' = [ip |-> ip, time |-> current_time, status |-> 200,
                                  n |-> rl_last.n + 1]
    /\ UNCHANGED notRate

NextRate == \E ip \in ClientIps, d \in Delays : Dispatch(ip, d)

(***************************************************************************)
(* Specifications.                                                         *)
(***************************************************************************)
InitDag == DagInit /\ ExtractIdle /\ CrawlIdle /\ GrobidIdle /\ ConfIdle
           /\ UnpaywallIdle /\ IvisIdle /\ AdminIdle /\ EvalIdle /\ RateIdle

SpecDag == InitDag /\ [][NextDag]_vars

InitExtract == DagInit /\ ExtractInit /\ CrawlIdle /\ GrobidIdle /\ ConfIdle
               /\ UnpaywallIdle /\ IvisIdle /\ AdminIdle /\ EvalIdle /\ RateIdle

SpecExtract == InitExtract /\ [][NextExtract]_vars

InitCrawl == DagInit /\ ExtractIdle /\ CrawlInit /\ GrobidIdle /\ ConfIdle
             /\ UnpaywallIdle /\ IvisIdle /\ AdminIdle /\ EvalIdle /\ RateIdle

SpecCrawl == InitCrawl /\ [][NextCrawl]_vars

\* the crawl Lambda invoked repeatedly for one source
RerunEvents == {ev \in Events : ev.kind = "crawl" /\ ~ev.malformed
                                  /\ Cardinality(ev.sources) = 1}

InitRerun == InitCrawl /\ event \in RerunEvents

NextRerun ==
    \/ CrawlSource
    \/ GetPdfUrls
    \/ ProcessPdf
    \/ ProcessReturns
    \/ HandlerReturns
    \/ HandlerInvokedAgain

SpecRerun == InitRerun /\ [][NextRerun]_vars

InitGrobid == DagInit /\ ExtractIdle /\ CrawlIdle /\ GrobidInit /\ ConfIdle
              /\ UnpaywallIdle /\ IvisIdle /\ AdminIdle /\ EvalIdle /\ RateIdle

SpecGrobid == InitGrobid /\ [][NextGrobid]_vars

InitConf == DagInit /\ ExtractIdle /\ CrawlIdle /\ GrobidIdle /\ ConfInit
            /\ UnpaywallIdle /\ IvisIdle /\ AdminIdle /\ EvalIdle /\ RateIdle

SpecConf == InitConf /\ [][NextConf]_vars

InitUnpaywall == DagInit /\ ExtractIdle /\ CrawlIdle /\ GrobidIdle /\ ConfIdle
                 /\ UnpaywallInit /\ IvisIdle /\ AdminIdle /\ EvalIdle /\ RateIdle

SpecUnpaywall == InitUnpaywall /\ [][NextUnpaywall]_vars

InitIvis == DagInit /\ ExtractIdle /\ CrawlIdle /\ GrobidIdle /\ ConfIdle
            /\ UnpaywallIdle /\ IvisInit /\ AdminIdle /\ EvalIdle /\ RateIdle

SpecIvis == InitIvis /\ [][NextIvis]_vars

\* one call of process_papers_for_full_text: a crawl of one source that asks
\* for the PDFs
ProcessEvents ==
    {ev \in Events : /\ ev.kind = "crawl"
                     /\ ev.process_pdfs
                     /\ ~ev.malformed
                     /\ Cardinality(ev.sources) = 1}

InitProcess == InitCrawl /\ event \in ProcessEvents

NextProcess ==
    \/ CrawlSource
    \/ GetPdfUrls
    \/ ProcessPdf
    \/ ProcessReturns
    \/ HandlerReturns

SpecProcess == InitProcess /\ [][NextProcess]_vars

InitEval == DagInit /\ ExtractIdle /\ CrawlIdle /\ GrobidIdle /\ ConfIdle
            /\ UnpaywallIdle /\ IvisIdle /\ AdminIdle /\ EvalInit /\ RateIdle

SpecEval == InitEval /\ [][NextEval]_vars

\* the runs and a stream of them, without other requests
NextStream ==
    \/ StartEvaluation
    \/ \E r \in RunIds : RequestStream(r)
    \/ RunEvaluationStarts
    \/ RunEvaluationResumes
    \/ \E r \in RunIds : EvaluationWakes(r)
    \/ StreamStarts
    \/ StreamResumes
    \/ StreamLoops
    \/ \E s \in StreamIds : StreamWakes(s)

\* the loop runs while callbacks are ready, and a sleep ends
FairSpecStream ==
    /\ InitEval
    /\ [][NextStream]_vars
    /\ WF_vars(RunOnce)
    /\ \A r \in RunIds : WF_vars(EvaluationWakes(r))
    /\ \A s \in StreamIds : WF_vars(StreamWakes(s))

InitRate == DagInit /\ ExtractIdle /\ CrawlIdle /\ GrobidIdle /\ ConfIdle
            /\ UnpaywallIdle /\ IvisIdle /\ AdminIdle /\ EvalIdle /\ RateInit

SpecRate == InitRate /\ [][NextRate]_vars

InitAdmin == DagInit /\ ExtractIdle /\ CrawlIdle /\ GrobidIdle /\ ConfIdle
             /\ UnpaywallIdle /\ IvisIdle /\ AdminInit /\ EvalIdle /\ RateIdle

SpecAdmin == InitAdmin /\ [][NextAdmin]_vars

(***************************************************************************)
(* C1.  put_raw is idempotent: storing the same bytes twice for the same   *)
(* candidate computes the same hash and key both times, the second call    *)
(* writes nothing, and the bucket holds exactly one object for those       *)
(* bytes of that candidate.                                                *)
(***************************************************************************)
PutRawIdempotent ==
    /\ \A i, j \in DOMAIN put_log :
          (/\ i < j
           /\ put_log[i].key.source = put_log[j].key.source
           /\ put_log[i].key.id = put_log[j].key.id
           /\ put_log[i].body = put_log[j].body)
          => /\ put_log[i].key = put_log[j].key
             /\ put_log[j].result # "written"
    /\ \A i \in DOMAIN put_log :
          Cardinality({o \in raw : /\ o.key.source = put_log[i].key.source
                                   /\ o.key.id = put_log[i].key.id
                                   /\ o.body = put_log[i].body}) = 1

\* download_papers has run twice and the second run put the bytes the first
\* one stored for a PMID
PutRawTwice ==
    \E i, j \in DOMAIN put_log :
       /\ i < j
       /\ put_log[i].key.source = "pubmed"
       /\ put_log[i].key = put_log[j].key
       /\ put_log[i].body = put_log[j].body
       /\ put_log[i].result = "written"
       /\ dag_run = 2

(***************************************************************************)
(* C2.  No two objects under raw/ hold the same bytes.                     *)
(***************************************************************************)
NoTwoCopies ==
    \A o1, o2 \in raw : o1.body = o2.body => o1 = o2

(***************************************************************************)
(* C3.  Of the candidates that share a DOI exactly one proceeds to         *)
(* download, and its document is stored once.                              *)
(***************************************************************************)
RequestedFor(src, doi) == \E l \in 1..3 : web[<<src, doi, l>>] # Unasked

OneCandidatePerDoi ==
    \A doi \in Ids :
       /\ ~(RequestedFor("doaj", doi) /\ RequestedFor("crossref", doi))
       /\ Cardinality({o \in raw : o.key.source \in {"doaj", "crossref"}
                                    /\ o.key.id = doi}) <= 1

(***************************************************************************)
(* C9.  A query error of one source does not keep the candidates of the    *)
(* other sources from download: download_papers is not skipped because a   *)
(* query task failed.                                                      *)
(***************************************************************************)
FailingSourceBlocksNothing ==
    \A t \in QueryTasks :
       task[t] = "failed" => task["download_papers"] # "upstream_failed"

(***************************************************************************)
(* C7.  extract_text_from_pdf goes through its strategies in the order     *)
(* pdfplumber, PyPDF2, basic record; it leaves a strategy for the next     *)
(* only when the library is missing or raised; extraction_method names the *)
(* strategy that produced the result; and when both libraries are missing  *)
(* or raise, the call returns the basic record, which carries the byte     *)
(* length of the PDF and the marker that text extraction was not           *)
(* available.  (A raise of PyPDF2 on one page is absorbed by its per-page  *)
(* try and is not a raise of the strategy.)                                *)
(***************************************************************************)
Strategies == <<"pdfplumber", "PyPDF2", "fallback">>

Rank(s) == CHOOSE i \in DOMAIN Strategies : Strategies[i] = s

LibState(env, s) ==
    IF s = "pdfplumber" THEN env.pdfplumber
    ELSE IF s = "PyPDF2" THEN env.PyPDF2 ELSE "ok"

NoUrl == [pmc |-> 0, form |-> 0]

\* the URL a stored document names as the one it came from
OriginUrl(content) == IF "url" \in DOMAIN content THEN content.url ELSE NoUrl

SecondUrlRecorded ==
    (Len(fetch.attempts) >= 2 /\ Accepts(fetch.last)) =>
        /\ fetch.content # 0
        /\ fetch.key # NoKey =>
              /\ ~fetch.failed
              /\ \E o \in lambda_s3 :
                    /\ o.key = fetch.key
                    /\ OriginUrl(o.content) = fetch.attempts[Len(fetch.attempts)]

(***************************************************************************)
(* C8.  At the end of the invocation, the bytes of every document that     *)
(* download_pdf returned are in the bucket, whatever the extraction did.   *)
(***************************************************************************)
\* the object holds the byte sequence
HoldsBytes(o, body) == o.key.prefix = "raw" /\ o.content = body

RawBytesRetained ==
    response.statusCode # 0 =>
        \A f \in fetched : \E o \in lambda_s3 : HoldsBytes(o, f.body)

(***************************************************************************)
(* C10.  When a put_object of the invocation raised, the handler does not  *)
(* answer success, and it counts as crawled or processed only what is in   *)
(* the bucket.                                                             *)
(***************************************************************************)
\* the papers of the metadata objects of the bucket
RECURSIVE StoredCount(_)
StoredCount(objs) ==
    IF objs = {} THEN 0
    ELSE LET o == CHOOSE x \in objs : TRUE
         IN  (IF o.key.prefix = "metadata" THEN o.content.count ELSE 0)
             + StoredCount(objs \ {o})

DroppedWriteSurfaces ==
    (response.statusCode # 0 /\ dropped > 0) =>
        /\ response.statusCode # 200
        /\ ~response.success
        /\ results.crawled_papers <= StoredCount(lambda_s3)
        /\ results.processed_documents
              <= Cardinality({o \in lambda_s3 : o.key.prefix = "fulltext"})

(***************************************************************************)
(* C6.  When GROBID times out on a document, a structured document is      *)
(* still produced for it, and its extraction method names the fallback     *)
(* that produced it, not GROBID.                                           *)
(***************************************************************************)
\* the method a stored structured document names; the documents under
\* processed/grobid carry grobid_result and no method of their own
ExtractionMethod(o) ==
    IF "extraction_method" \in DOMAIN o.content THEN o.content.extraction_method
    ELSE "grobid"

TimeoutStillStructured ==
    \A i \in DOMAIN gresults :
        gresults[i].error = "GROBID timeout" =>
            \E o \in training :
                /\ o.key.prefix = "processed/grobid"
                /\ o.content.source_key = gresults[i].source_key
                /\ ExtractionMethod(o) # "grobid"

(***************************************************************************)
(* C5.  download_pdf never accepts as the document a 200 response whose    *)
(* content type is not PDF: every object ConferenceCrawler.download_pdf    *)
(* stored came from a response with a PDF content type.                    *)
(***************************************************************************)
OnlyPdfAccepted == \A o \in conf_s3 : PdfType(o.ctype)

(***************************************************************************)
(* C11.  An invocation that follows another on the same bucket stores no   *)
(* object whose content the bucket already held when it began: a second    *)
(* run over the same responses adds no metadata or full-text object.       *)
(***************************************************************************)
RerunAddsNothing ==
    (inv.n > 1 /\ hpc.pc = "returned") =>
        \A o \in lambda_s3 \ inv.before :
            \A p \in inv.before : o.content # p.content

(***************************************************************************)
(* C12.  The bucket holds at most one structured record for the bytes of   *)
(* a paper: extracting the same bytes of the same paper again writes under *)
(* the key of the record it wrote before.                                  *)
(***************************************************************************)
OneStructuredPerHash ==
    \A x, y \in fetched :
        (/\ x.source = y.source
         /\ x.paper_id = y.paper_id
         /\ md5(x.body) = md5(y.body)
         /\ x.key # NoKey
         /\ y.key # NoKey) => x.key = y.key

(***************************************************************************)
(* C13.  The training bucket never holds half a result: for every document *)
(* hash, the processed JSON is there exactly when the TEI XML is.          *)
(***************************************************************************)
StructuredWriteAtomic ==
    \A o \in training :
        \E q \in training :
            /\ q.key.hash = o.key.hash
            /\ q.key.prefix # o.key.prefix

(***************************************************************************)
(* C14.  In no period are more requests sent to Unpaywall than the rate    *)
(* limit of process_doi_batch allows, however many threads are at work.    *)
(***************************************************************************)
WithinRateBudget ==
    \A t \in 1..now :
        Cardinality({d \in DOMAIN future :
                        future[d].state # "pending" /\ future[d].sent = t})
            <= RequestsPerSleep

(***************************************************************************)
(* C15.  When the loop of process_papers_for_full_text is over, every      *)
(* paper it was given for which there is no URL to try has been counted    *)
(* as one failure.                                                         *)
(***************************************************************************)
\* the papers of a list that have no URL whatever elink answers
WithoutUrls(papers) ==
    {i \in DOMAIN papers : \A el \in ElinkOutcomes : PotentialUrls(papers[i], el) = <<>>}

EmptyUrlListCounted ==
    (hpc.pc = "pdfs" /\ proc.idx > Len(proc.queue)) =>
        proc.failed >= Cardinality(WithoutUrls(proc.papers))

(***************************************************************************)
(* C16.  When download_pdf has tried every URL of a paper and none gave a  *)
(* PDF, what it returns to process_papers_for_full_text carries one reason *)
(* for each URL it tried.                                                  *)
(***************************************************************************)
\* the reasons the value download_pdf returned carries: it is the bytes of
\* the response or None, and the reasons went to logger.warning only
ReasonsCarried(pdf_content) == <<>>

FailureCarriesReasons ==
    (fetch.paper_id # NoId /\ fetch.content = 0) =>
        Len(ReasonsCarried(fetch.content)) = Len(fetch.attempts)

(***************************************************************************)
(* C17.  A URL whose request ended in a network error (the connection      *)
(* failed or timed out) is requested again before download_pdf gives it    *)
(* up.                                                                     *)
(***************************************************************************)
\* requests.get raised: the connection failed or the timeout of 60 s passed
Transient(r) == r.kind = "raised"

\* how many times download_pdf requested the URL of its last attempt
TimesRequested(attempts) ==
    Cardinality({i \in DOMAIN attempts : attempts[i] = attempts[Len(attempts)]})

TransientRetried ==
    (fetch.paper_id # NoId /\ Transient(fetch.last)) =>
        TimesRequested(fetch.attempts) > 1

(***************************************************************************)
(* C18.  A document is structured by the local extraction only after       *)
(* GROBID was tried on a document and failed: every full-text record of    *)
(* extract_text_from_pdf in the bucket is preceded by a failed result of   *)
(* process_document.                                                       *)
(***************************************************************************)
\* the records save_full_text_to_s3 wrote: documents structured locally
LocallyStructured == {o \in lambda_s3 : o.key.prefix = "fulltext"}

\* the results of process_document in which GROBID failed or timed out
PrimaryFailures == {i \in DOMAIN gresults : ~gresults[i].success}

FallbackAfterPrimaryFailure ==
    LocallyStructured # {} => PrimaryFailures # {}

(***************************************************************************)
(* C19.  When the handler has returned, the health record of every source  *)
(* against which fetches failed counts those failures: its error count,    *)
(* as AdminService.get_paper_sources computes it from the bucket, is at    *)
(* least the number of failed attempts the handler reported for it.        *)
(***************************************************************************)
\* the objects get_paper_sources lists for a source: metadata/{source}/...
MetadataObjects(objects, src) ==
    {o \in objects : o.key.prefix = "metadata" /\ o.key.source = src}

\* source_stats[source]["error_count"]: the metadata objects of the source
\* that get_object or json.loads raised on
error_count(objects, unreadable, src) ==
    Cardinality({o \in MetadataObjects(objects, src) : o.key \in unreadable})

FailedAttemptCounted ==
    hpc.pc = "returned" =>
        \A i \in DOMAIN results.errors :
            \A unreadable \in SUBSET {o.key : o \in lambda_s3} :
                error_count(lambda_s3, unreadable, results.errors[i].source)
                    >= results.errors[i].failed

(***************************************************************************)
(* C20.  What the IVIS crawler returns for a section was never served to   *)
(* a session that had expired: when the session ends after the login, the  *)
(* crawler logs in again and asks again.                                   *)
(***************************************************************************)
ExpiredSessionRetried ==
    /\ ivis_results.proceedings.served # "expired"
    /\ ivis_results.books.served # "expired"

(***************************************************************************)
(* C21.  When an invocation of lambda_handler has ended, every document    *)
(* its event named has exactly one entry in results, successful or failed, *)
(* whatever happened to the other documents of the batch.                  *)
(***************************************************************************)
\* the items of the event that name a document
NamedDocuments == {i \in DOMAIN gevent.items : gevent.items[i].type # "sqs_skip"}

EveryDocumentHasResult ==
    gpc.pc \in {"returned", "raised"} =>
        Len(gresults) = Cardinality(NamedDocuments)

(***************************************************************************)
(* C22.  What get_paper_stats returns counts the papers of the bucket:     *)
(* total_papers is the number of papers the readable metadata files hold,  *)
(* and the counts of the sources add up to it, on every call.              *)
(***************************************************************************)
StatsAggregateTotals ==
    paper_stats.returned =>
        /\ paper_stats.stats.total_papers =
              paper_count(listing, "pubmed", Len(listing))
              + paper_count(listing, "europe_pmc", Len(listing))
        /\ paper_stats.stats.total_papers =
              paper_stats.stats.papers_by_source["pubmed"]
              + paper_stats.stats.papers_by_source["europe_pmc"]

(***************************************************************************)
(* C23.  The read surface tells a degraded source from the others: once    *)
(* get_paper_sources has returned, every source one of whose metadata      *)
(* objects could not be read is reported with api_status 'degraded'.       *)
(***************************************************************************)
HasUnreadable(objs, src) ==
    \E i \in DOMAIN objs : objs[i].source = src /\ ~objs[i].readable

DegradedSourceReported ==
    paper_sources.returned =>
        \A src \in AdminSources :
            HasUnreadable(listing, src) =>
                /\ src \in DOMAIN paper_sources.sources
                /\ paper_sources.sources[src].api_status = "degraded"

(***************************************************************************)
(* C30.  Once get_paper_sources has returned, every source that has        *)
(* metadata objects is reported with a last_crawl equal to the latest      *)
(* modification time among its objects, readable or not and in whatever    *)
(* order they are listed, and is 'healthy' exactly when its error_count    *)
(* is 0.                                                                   *)
(***************************************************************************)
LatestModified(objs, src) ==
    CHOOSE t \in 1..MaxTime :
        /\ \E i \in DOMAIN objs : objs[i].source = src /\ objs[i].last_modified = t
        /\ \A i \in DOMAIN objs : objs[i].source = src => objs[i].last_modified <= t

LastCrawlIsLatest ==
    paper_sources.returned =>
        \A src \in AdminSources :
            (\E i \in DOMAIN listing : listing[i].source = src) =>
                /\ src \in DOMAIN paper_sources.sources
                /\ paper_sources.sources[src].last_crawl = LatestModified(listing, src)
                /\ paper_sources.sources[src].api_status = "healthy"
                      <=> paper_sources.sources[src].error_count = 0

(***************************************************************************)
(* C24.  When the structured local extraction (method 1, pdfplumber) is    *)
(* the one that returns and the first page of the PDF contains             *)
(* 'abstract', the sections it returns have a non-empty 'abstract'.        *)
(***************************************************************************)
AbstractOnFirstPage ==
    /\ ex_out.pc = "returned"
    /\ ex_out.result.extraction_method = "pdfplumber"
    /\ Len(ex_in.pdf.pages) >= 1
    /\ "abstract" \in ex_in.pdf.pages[1].words

AbstractFromFirstPage ==
    AbstractOnFirstPage =>
        /\ "abstract" \in DOMAIN ex_out.result.sections
        /\ ex_out.result.sections["abstract"].len > 0

\* the first page holds both 'abstract' and 'introduction'
AbstractWithIntroductionReturned ==
    /\ AbstractOnFirstPage
    /\ "introduction" \in ex_in.pdf.pages[1].words
    /\ ex_out.result.sections["abstract"].page = 1

(***************************************************************************)
(* C25.  In the result of method 1 a section holds the excerpt of the      *)
(* first page that reached its branch: a section filled after i pages is   *)
(* the same after i + 1 pages; a page before the one a section holds that  *)
(* contains a word of its heading filled another section; and no excerpt   *)
(* is longer than 500 characters.                                          *)
(***************************************************************************)
SectionsAfter(pdf, i) == Method1([pdf EXCEPT !.pages = SubSeq(@, 1, i)]).sections

HasHeading(page, h) == page.len > 0 /\ Triggers(h) \cap page.words # {}

Candidates(papers, el) ==
    {i \in DOMAIN papers : PotentialUrls(papers[i], el[i]) # <<>>}

Min(a, b) == IF a < b THEN a ELSE b

CountedInLoop ==
    hpc.pc = "pdfs" =>
        /\ proc.processed + proc.failed = proc.idx - 1
        /\ \A i \in DOMAIN proc.queue : proc.queue[i].pdf_urls # <<>>
        /\ proc.idx > Len(proc.queue) =>
              /\ proc.processed + proc.failed = Len(proc.queue)
              /\ \E el \in Elinks(proc.papers) :
                    Len(proc.queue) =
                        Min(Cardinality(Candidates(proc.papers, el)), event.max_pdfs)

ProcessedOnlyWhenSaved ==
    proc'.processed > proc.processed =>
        /\ proc'.processed = proc.processed + 1
        /\ proc'.failed = proc.failed
        /\ fetch'.content # 0
        /\ fetch'.key # NoKey
        /\ \E o \in lambda_s3' : o.key = fetch'.key

StatusStep(old, new) ==
    \/ new = old
    \/ old = "absent" /\ new \in {"running", "completed"}
    \/ old = "running" /\ new \in {"completed", "failed"}

Lifecycle ==
    \A r \in RunIds : StatusStep(evaluation_runs[r].status, evaluation_runs'[r].status)

RunEnded(r) == evaluation_runs[r].status \in {"completed", "failed"}

Completes(st) == {i \in DOMAIN st.events : st.events[i].type = "complete"}

OneCompleteLast ==
    \A s \in StreamIds :
        LET st == streams[s]
        IN  /\ Cardinality(Completes(st)) <= 1
            /\ Completes(st) # {} =>
                  /\ Completes(st) = {Len(st.events)}
                  /\ st.pc = "done"
                  /\ st.events[Len(st.events)].status = evaluation_runs[st.run_id].status
                  /\ RunEnded(st.run_id)
            /\ st.pc = "done" => st.events # <<>>
            /\ (st.pc = "done" /\ st.events[1].type # "error") => Completes(st) # {}

\* the stream has found its run and has not ended
StreamOpen(s) == streams[s].pc \in {"yielded", "sleeping", "woken"}

StreamEnds ==
    \A s \in StreamIds :
        (StreamOpen(s) /\ RunEnded(streams[s].run_id))
            ~> (streams[s].pc = "done" /\ Completes(streams[s]) # {})

IssuedRunFound == lookup.issued => lookup.found

\* a stream asked for a run whose task is in its first sleep finds it
FoundBeforeFirstSleep ==
    /\ lookup.call = "stream_evaluation_progress"
    /\ lookup.issued
    /\ lookup.found
    /\ eval_tasks[lookup.run_id].pc = "sleeping"
    /\ eval_tasks[lookup.run_id].i = 1

(***************************************************************************)
(* C29.  For each client IP, no 60 seconds starting at any second hold     *)
(* more than calls_per_minute requests given to call_next; only such       *)
(* requests are recorded; and a request is refused with 429 only when      *)
(* calls_per_minute requests of its client were passed on in the 60        *)
(* seconds before it.                                                      *)
(***************************************************************************)
\* the requests of ip passed on at a time t with lo <= t < hi
PassedIn(ip, lo, hi) ==
    {i \in DOMAIN passed[ip] : lo <= passed[ip][i] /\ passed[ip][i] < hi}

RateLimitHolds ==
    /\ \A ip \in ClientIps : \A a \in 0..rl_now :
          Cardinality(PassedIn(ip, a, a + Window)) <= calls_per_minute
    /\ \A ip \in ClientIps :
          /\ Len(requests[ip]) <= Len(passed[ip])
          /\ requests[ip] = SubSeq(passed[ip],
                                   Len(passed[ip]) - Len(requests[ip]) + 1,
                                   Len(passed[ip]))
    /\ rl_last.status = 429 =>
          Cardinality(PassedIn(rl_last.ip, rl_last.time - Window + 1,
                               rl_last.time + 1)) >= calls_per_minute

\* a client refused in its window is served again 60 seconds after its
\* first request, though it was refused in between
ServedAfterRefusal ==
    \E ip \in ClientIps :
        /\ Len(passed[ip]) = calls_per_minute + 1
        /\ passed[ip][calls_per_minute + 1] = passed[ip][1] + Window
        /\ rl_last.ip = ip
        /\ rl_last.status = 200
        /\ rl_last.n = calls_per_minute + 2
====
